---- MODULE Spec2Model ----
(***************************************************************************)
(* Maker-only actor pipeline of the Polymarket V2 engine:                  *)
(*   User Fill Listener -> fan-out -> {Inventory Manager, Executor}        *)
(*   OFI watch + Inventory watch + book ticks -> Strategy Coordinator      *)
(*   Coordinator -> ExecutionCmd -> Executor -> OrderResult -> Coordinator *)
(*                                                                         *)
(* Units.  Prices are integers in mills (0.001 = 1, so 0.999 = 999).       *)
(* A price that is not yet rounded is a rational <<num, den>> in mills.    *)
(* Average costs are exact rationals <<num, den>> in lowest terms (the     *)
(* code's f64 is read as exact arithmetic).  Quantities and sizes are      *)
(* integers (shares).  `now` counts 100 ms steps; `dedup_now` counts       *)
(* 5 minute steps.                                                         *)
(***************************************************************************)
EXTENDS Integers, Sequences, FiniteSets, TLC

VARIABLES
    sup,              \* main: where it stands, its client and credentials, its tasks
    cfg,              \* CoordinatorConfig
    inv_cfg,          \* InventoryConfig
    now,              \* Instant::now(), 100 ms steps
    book,             \* StrategyCoordinator.book
    last_valid_book,  \* StrategyCoordinator.last_valid_book
    slots,            \* StrategyCoordinator.yes_bid / no_bid
    stats,            \* StrategyCoordinator.stats (ticks, placed)
    coord_pc,         \* where the Coordinator's tick stands
    ofi_cfg,          \* OfiConfig
    ofi_rx,           \* watch channel OfiSnapshot
    ofi_md_q,         \* mpsc TradeTick, market feed -> OfiEngine
    book_asm,         \* run_market_ws: its BookAssembler
    md_log,           \* the book updates the market feed parsed, the BookTicks it forwarded
    ofi_win,          \* OfiEngine.yes_window / no_window
    ofi_ticker,       \* when the OfiEngine's heartbeat interval fires next
    ofi_seen,         \* the trade ticks the OfiEngine has taken: how many, the last when
    inv_state,        \* InventoryManager.state
    inv_rx,           \* watch channel InventoryState
    fill_q,           \* mpsc fill_tx -> fan-out
    inv_fill_q,       \* mpsc fan-out -> InventoryManager
    exec_fill_q,      \* mpsc fan-out -> Executor
    exec_q,           \* mpsc ExecutionCmd
    result_q,         \* mpsc OrderResult
    open_orders,      \* Executor.open_orders
    next_oid,         \* order ids the venue has handed out
    dedup,            \* DedupCache.seen_at
    dedup_now,        \* Instant::now() seen by the dedup cache, 5 min steps
    msgs_in,          \* trade messages read on the first connection, in order
    replay,           \* the listener's connection: first pass or replay position
    fills_out,        \* FillEvents the listener has sent, in order
    venue,            \* orders the venue accepted: id -> side, price
    last_tick,        \* the branch the last Coordinator tick took and what it sent
    placed,           \* per side: the PlacePostOnlyBid sent so far, and when the last
    last_place,       \* how the Executor's last PlacePostOnlyBid ended
    place_log,        \* per side, how each PlacePostOnlyBid handled so far ended
    last_cancel       \* the ids of the Executor's last cancel, and those the venue cancelled

vars == <<sup, cfg, inv_cfg, now, book, last_valid_book, slots, stats, coord_pc,
          ofi_cfg, ofi_rx, ofi_md_q, book_asm, md_log, ofi_win, ofi_ticker, ofi_seen, inv_state, inv_rx, fill_q, inv_fill_q, exec_fill_q, exec_q,
          result_q, open_orders, next_oid, dedup, dedup_now, msgs_in, replay,
          fills_out, venue, last_tick, placed, last_place,
          place_log, last_cancel>>

cfgVars == <<sup, cfg, inv_cfg, ofi_cfg>>

feedVars == <<book_asm, md_log>>

ofiVars == <<ofi_rx, ofi_md_q, ofi_win, ofi_ticker, ofi_seen, feedVars>>

coordVars == <<book, last_valid_book, slots, stats, coord_pc, last_tick, placed>>

invVars == <<inv_state, inv_rx>>

execVars == <<open_orders, next_oid, venue, last_place, place_log, last_cancel>>

listenerVars == <<dedup, dedup_now, msgs_in, replay, fills_out>>

----------------------------------------------------------------------------
(* Bounds of the model *)

\* order ids the venue hands out in a session
MaxOrders == 3

\* the pipeline: book ticks, trade messages, 100 ms steps
MaxTicks == 2
MaxMsgs == 2
MaxTime == 2

\* quoting: book ticks and trade messages
MaxQuoteTicks == 3
MaxQuoteMsgs == 3

\* the listener alone: trade messages, reconnects, 5 minute steps
MaxListenerMsgs == 2
MaxReconnects == 1
MaxDedupTime == 4

\* pricing: book ticks
MaxPriceTicks == 2

\* the Inventory Manager alone: trade messages
MaxInvMsgs == 3

\* the OFI Engine alone: trade ticks and 100 ms steps
MaxOfiTrades == 2
MaxOfiTime == 8

\* the supervisor: rounds, book ticks, trade messages and 100 ms steps
MaxRounds == 2
MaxMainTicks == 1
MaxMainMsgs == 1
MaxMainTime == 12

\* the inventory gate: book ticks and trade messages
MaxGateTicks == 3
MaxGateMsgs == 2

\* hedging on thin books: book ticks and trade messages
MaxHedgeTicks == 2
MaxHedgeMsgs == 2

----------------------------------------------------------------------------
(* Basic types *)

Sides == {"Yes", "No"}

OtherSide(s) == IF s = "Yes" THEN "No" ELSE "Yes"

Abs(x) == IF x < 0 THEN -x ELSE x

Max(a, b) == IF a >= b THEN a ELSE b

Min(a, b) == IF a <= b THEN a ELSE b

RECURSIVE Gcd(_, _)
Gcd(a, b) == IF b = 0 THEN a ELSE Gcd(b, a % b)

\* a rational n/d (d > 0) in lowest terms; 0 is <<0, 1>>
Norm(n, d) ==
    IF n = 0 THEN <<0, 1>>
    ELSE LET g == Gcd(Abs(n), d) IN <<n \div g, d \div g>>

Zero == <<0, 1>>

RatAdd(a, b) == Norm(a[1] * b[2] + b[1] * a[2], a[2] * b[2])

RatLt(a, b) == a[1] * b[2] < b[1] * a[2]

RatLe(a, b) == a[1] * b[2] <= b[1] * a[2]

----------------------------------------------------------------------------
(* Inventory Manager (inventory.rs) *)

SuccessStatuses == {"Matched", "Confirmed"}

FillStatuses == {"Matched", "Confirmed", "Failed"}

\* struct FillEvent (messages.rs), without its timestamp
FillEvent(order_id, side, size, price, status) ==
    [order_id |-> order_id, side |-> side, filled_size |-> size,
     price |-> price, status |-> status]

\* impl Default for InventoryState
DefaultInventoryState ==
    [yes_qty |-> 0, no_qty |-> 0, yes_avg_cost |-> Zero, no_avg_cost |-> Zero,
     net_diff |-> 0, portfolio_cost |-> Zero, can_open |-> TRUE]

\* InventoryManager::can_open on state st with limits c
can_open(st, c) ==
    LET net_ok == Abs(st.net_diff) < c.max_net_diff
        cost_ok == RatLt(st.portfolio_cost, <<c.max_portfolio_cost, 1>>)
                   \/ st.portfolio_cost = Zero
        \* yes_value = yes_qty * yes_avg_cost < max_position_value
        yes_ok == st.yes_qty * st.yes_avg_cost[1]
                  < c.max_position_value * st.yes_avg_cost[2]
        no_ok == st.no_qty * st.no_avg_cost[1]
                 < c.max_position_value * st.no_avg_cost[2]
    IN net_ok /\ cost_ok /\ yes_ok /\ no_ok

\* the multiplier of apply_fill: +1 for Matched | Confirmed, -1 for Failed
Multiplier(status) == IF status \in SuccessStatuses THEN 1 ELSE -1

\* faulty variant: the quantity is not floored at zero
NewQtyUnfloored(old_q, delta) == old_q + delta

\* new quantity of the filled side: (old_q + delta).max(0.0)
NewQty(old_q, delta) == Max(old_q + delta, 0)

\* faulty variant: the average cost is the price of the last fill
NewAvgLastPrice(old_q, old_avg, new_q, fill) ==
    IF new_q = 0 THEN Zero
    ELSE IF Multiplier(fill.status) > 0 THEN <<fill.price, 1>>
    ELSE old_avg

\* new average cost of the filled side
NewAvg(old_q, old_avg, new_q, fill) ==
    LET delta == fill.filled_size * Multiplier(fill.status)
        vwap == IF delta > 0 /\ new_q > 0
                THEN Norm(old_q * old_avg[1] + fill.filled_size * fill.price * old_avg[2],
                          old_avg[2] * new_q)
                ELSE old_avg
    IN IF new_q = 0 THEN Zero ELSE vwap

\* InventoryManager::apply_fill
apply_fill(st, c, fill) ==
    LET delta == fill.filled_size * Multiplier(fill.status)
        yq == IF fill.side = "Yes" THEN NewQty(st.yes_qty, delta) ELSE st.yes_qty
        nq == IF fill.side = "No" THEN NewQty(st.no_qty, delta) ELSE st.no_qty
        ya == IF fill.side = "Yes"
              THEN NewAvg(st.yes_qty, st.yes_avg_cost, yq, fill)
              ELSE st.yes_avg_cost
        na == IF fill.side = "No"
              THEN NewAvg(st.no_qty, st.no_avg_cost, nq, fill)
              ELSE st.no_avg_cost
        derived == [yes_qty |-> yq, no_qty |-> nq,
                    yes_avg_cost |-> ya, no_avg_cost |-> na,
                    net_diff |-> yq - nq,
                    portfolio_cost |-> IF yq > 0 /\ nq > 0 THEN RatAdd(ya, na) ELSE Zero,
                    can_open |-> st.can_open]
    IN [derived EXCEPT !.can_open = can_open(derived, c)]

\* InventoryManager::run, one iteration: receive a fill, apply it, publish
InvRecv ==
    /\ inv_fill_q # <<>>
    /\ inv_state' = apply_fill(inv_state, inv_cfg, Head(inv_fill_q))
    /\ inv_rx' = inv_state'
    /\ inv_fill_q' = Tail(inv_fill_q)
    /\ UNCHANGED <<cfgVars, now, coordVars, ofiVars, fill_q, exec_fill_q,
                   exec_q, result_q, execVars, listenerVars>>

\* faulty variant: the fill reaches the Inventory Manager only
FanoutInventoryOnly ==
    /\ fill_q # <<>>
    /\ inv_fill_q' = Append(inv_fill_q, Head(fill_q))
    /\ fill_q' = Tail(fill_q)
    /\ UNCHANGED <<cfgVars, now, coordVars, ofiVars, invVars, exec_fill_q, exec_q,
                   result_q, execVars, listenerVars>>

\* the fan-out task of main: one fill to both receivers
Fanout ==
    /\ fill_q # <<>>
    /\ inv_fill_q' = Append(inv_fill_q, Head(fill_q))
    /\ exec_fill_q' = Append(exec_fill_q, Head(fill_q))
    /\ fill_q' = Tail(fill_q)
    /\ UNCHANGED <<cfgVars, now, coordVars, ofiVars, invVars, exec_q,
                   result_q, execVars, listenerVars>>

----------------------------------------------------------------------------
(* Strategy Coordinator (coordinator.rs) *)

\* floored.clamp(0.001, 0.999)
PriceMin == 1

PriceMax == 999

\* Instant::now() - 60 s, the initial last_placed of a BidSlot
SlotStartAge == 600

\* impl Default for BidSlot
DefaultBidSlot == [active |-> FALSE, price |-> 0, last_placed |-> 0 - SlotStartAge]

\* impl Default for Book
DefaultBook == [yes_bid |-> 0, yes_ask |-> 0, no_bid |-> 0, no_ask |-> 0]

MkBook(yb, ya, nb, na) == [yes_bid |-> yb, yes_ask |-> ya, no_bid |-> nb, no_ask |-> na]

PlaceCmd(side, price, size, reason) ==
    [type |-> "PlacePostOnlyBid", side |-> side, price |-> price,
     size |-> size, reason |-> reason]

CancelSideCmd(side, reason) ==
    [type |-> "CancelSide", side |-> side, price |-> 0, size |-> 0, reason |-> reason]

CancelAllCmd(reason) ==
    [type |-> "CancelAll", side |-> "All", price |-> 0, size |-> 0, reason |-> reason]

\* StrategyCoordinator::update_book: the new last_valid_book
update_book(lv, b) ==
    LET y == IF b.yes_bid > 0 /\ b.yes_ask > 0
             THEN [lv EXCEPT !.yes_bid = b.yes_bid, !.yes_ask = b.yes_ask]
             ELSE lv
    IN IF b.no_bid > 0 /\ b.no_ask > 0
       THEN [y EXCEPT !.no_bid = b.no_bid, !.no_ask = b.no_ask]
       ELSE y

\* StrategyCoordinator::usable_book
usable_book(b, lv) ==
    [yes_bid |-> IF b.yes_bid > 0 THEN b.yes_bid ELSE lv.yes_bid,
     yes_ask |-> IF b.yes_ask > 0 THEN b.yes_ask ELSE lv.yes_ask,
     no_bid |-> IF b.no_bid > 0 THEN b.no_bid ELSE lv.no_bid,
     no_ask |-> IF b.no_ask > 0 THEN b.no_ask ELSE lv.no_ask]

\* (p / tick_size).floor() * tick_size for the rational p
FloorToTick(p, tick) == (p[1] \div (p[2] * tick)) * tick

\* StrategyCoordinator::safe_price of the rational p
safe_price(p, c) == Max(PriceMin, Min(PriceMax, FloorToTick(p, c.tick_size)))

\* faulty variant: with no ask the bid goes to the ceiling
aggressive_price_at_ceiling(ceiling, best_ask, c) ==
    IF RatLe(ceiling, Zero) \/ RatLe(<<1000, 1>>, ceiling) THEN 0
    ELSE IF best_ask <= 0 THEN Max(PriceMin, Min(PriceMax, ceiling[1] \div ceiling[2]))
    ELSE LET one_tick_below == best_ask - c.tick_size
         IN IF one_tick_below <= 0 THEN 0
            ELSE Max(PriceMin, Min(PriceMax, Min(ceiling[1] \div ceiling[2], one_tick_below)))

\* StrategyCoordinator::aggressive_price; ceiling is a rational, best_ask a price
aggressive_price(ceiling, best_ask, c) ==
    IF RatLe(ceiling, Zero) \/ RatLe(<<1000, 1>>, ceiling) THEN 0
    ELSE IF best_ask <= 0 THEN 0
    ELSE LET one_tick_below == best_ask - c.tick_size
         IN IF one_tick_below <= 0 THEN 0
            ELSE safe_price(IF RatLe(ceiling, <<one_tick_below, 1>>)
                            THEN ceiling ELSE <<one_tick_below, 1>>, c)

\* The Coordinator's handlers thread cs = [slots, out]: the bid slots and the
\* commands sent so far on exec_tx by the running handler.

\* StrategyCoordinator::cancel
cancel(cs, side, reason, c) ==
    [slots |-> [cs.slots EXCEPT ![side].active = FALSE, ![side].price = 0],
     out |-> IF c.dry_run THEN cs.out ELSE Append(cs.out, CancelSideCmd(side, reason))]

\* StrategyCoordinator::place
place(cs, side, price, reason, c, t) ==
    [slots |-> [cs.slots EXCEPT ![side].active = TRUE, ![side].price = price,
                                ![side].last_placed = t],
     out |-> IF c.dry_run THEN cs.out
             ELSE Append(cs.out, PlaceCmd(side, price, c.bid_size, reason))]

\* faulty variant: no debounce
NeverDebounced(slot, c, t) == FALSE

\* the debounce test of place_or_reprice: elapsed < debounce
Debounced(slot, c, t) == t - slot.last_placed < c.debounce_ms

\* faulty variant: a reprice places the new bid without cancelling the old
place_or_reprice_no_cancel(cs, side, price, reason, c, t) ==
    LET slot == cs.slots[side]
    IN IF Debounced(slot, c, t) THEN cs
       ELSE IF ~slot.active THEN place(cs, side, price, reason, c, t)
       ELSE IF Abs(slot.price - price) > c.reprice_threshold
            THEN place(cs, side, price, reason, c, t)
       ELSE cs

\* StrategyCoordinator::place_or_reprice
place_or_reprice(cs, side, price, reason, c, t) ==
    LET slot == cs.slots[side]
    IN IF Debounced(slot, c, t) THEN cs
       ELSE IF ~slot.active THEN place(cs, side, price, reason, c, t)
       ELSE IF Abs(slot.price - price) > c.reprice_threshold
            THEN place(cancel(cs, side, "Reprice", c), side, price, reason, c, t)
       ELSE cs

\* cancel the side when its slot is active
CancelIfActive(cs, side, reason, c) ==
    IF cs.slots[side].active THEN cancel(cs, side, reason, c) ELSE cs

\* faulty variant: the kill switch cancels YES only
kill_switch_yes_only(cs, c) == CancelIfActive(cs, "Yes", "ToxicFlow", c)

\* StrategyCoordinator::global_kill_switch
global_kill_switch(cs, c) ==
    CancelIfActive(CancelIfActive(cs, "Yes", "ToxicFlow", c), "No", "ToxicFlow", c)

\* the two Balanced targets before rounding: mids, or mids less half the excess
\* faulty variant: the mids are quoted whatever their sum
BalancedTargetsUncapped(ub, c) ==
    [Yes |-> <<ub.yes_bid + ub.yes_ask, 2>>, No |-> <<ub.no_bid + ub.no_ask, 2>>]

BalancedTargets(ub, c) ==
    LET sy == ub.yes_bid + ub.yes_ask   \* 2 * mid_yes
        sn == ub.no_bid + ub.no_ask     \* 2 * mid_no
    IN IF sy + sn <= 2 * c.pair_target
       THEN [Yes |-> <<sy, 2>>, No |-> <<sn, 2>>]
       ELSE \* excess = (sy + sn)/2 - pair_target; target = mid - excess/2
            [Yes |-> <<2 * sy - (sy + sn) + 2 * c.pair_target, 4>>,
             No |-> <<2 * sn - (sy + sn) + 2 * c.pair_target, 4>>]

\* faulty variant: a closed gate cancels both sides whatever net_diff is
state_balanced_gate_both(cs, ub, inv, c, t) ==
    IF ~inv.can_open
    THEN CancelIfActive(CancelIfActive(cs, "Yes", "InventoryLimit", c),
                        "No", "InventoryLimit", c)
    ELSE LET tg == BalancedTargets(ub, c)
             bid_yes == safe_price(tg.Yes, c)
             bid_no == safe_price(tg.No, c)
         IN place_or_reprice(place_or_reprice(cs, "Yes", bid_yes, "Provide", c, t),
                             "No", bid_no, "Provide", c, t)

\* StrategyCoordinator::state_balanced; inv is the snapshot it reads itself
state_balanced(cs, ub, inv, c, t) ==
    IF ~inv.can_open
    THEN IF inv.net_diff = 0   \* net_diff.abs() < 0.001 on whole shares
         THEN CancelIfActive(CancelIfActive(cs, "Yes", "InventoryLimit", c),
                             "No", "InventoryLimit", c)
         ELSE CancelIfActive(cs, IF inv.net_diff > 0 THEN "Yes" ELSE "No",
                             "InventoryLimit", c)
    ELSE LET tg == BalancedTargets(ub, c)
             bid_yes == safe_price(tg.Yes, c)
             bid_no == safe_price(tg.No, c)
         IN place_or_reprice(place_or_reprice(cs, "Yes", bid_yes, "Provide", c, t),
                             "No", bid_no, "Provide", c, t)

\* the hedge ceiling pair_target - avg_cost(excess side), a rational
HedgeCeiling(avg, c) == Norm(c.pair_target * avg[2] - avg[1], avg[2])

\* faulty variant: the excess side's bid is left alone
state_hedge_keeps_excess(cs, inv, ub, c, t) ==
    LET excess == IF inv.net_diff > 0 THEN "Yes" ELSE "No"
        deficit == OtherSide(excess)
        ceiling == HedgeCeiling(IF excess = "Yes" THEN inv.yes_avg_cost
                                ELSE inv.no_avg_cost, c)
        price == aggressive_price(ceiling,
                                  IF deficit = "No" THEN ub.no_ask ELSE ub.yes_ask, c)
    IN IF price > 0 THEN place_or_reprice(cs, deficit, price, "Hedge", c, t) ELSE cs

\* StrategyCoordinator::state_hedge
state_hedge(cs, inv, ub, c, t) ==
    LET excess == IF inv.net_diff > 0 THEN "Yes" ELSE "No"
        deficit == OtherSide(excess)
        cs1 == CancelIfActive(cs, excess, "InventoryLimit", c)
        ceiling == HedgeCeiling(IF excess = "Yes" THEN inv.yes_avg_cost
                                ELSE inv.no_avg_cost, c)
        price == aggressive_price(ceiling,
                                  IF deficit = "No" THEN ub.no_ask ELSE ub.yes_ask, c)
    IN IF price > 0 THEN place_or_reprice(cs1, deficit, price, "Hedge", c, t) ELSE cs1

\* the branch StrategyCoordinator::tick takes
TickBranch(ofi, ub, inv) ==
    IF ofi.Yes.is_toxic \/ ofi.No.is_toxic THEN "toxic"
    ELSE IF ub.yes_bid <= 0 \/ ub.no_bid <= 0 THEN "empty"
    ELSE IF inv.net_diff = 0 THEN "balanced"   \* net_diff.abs() < f64::EPSILON
    ELSE "hedge"

\* the PlacePostOnlyBid for side among the commands out
PlacesFor(out, side) ==
    {i \in 1..Len(out) : out[i].type = "PlacePostOnlyBid" /\ out[i].side = side}

\* the record of what was sent, after the commands out were sent at time t
\* the placements of a side are counted up to MaxPlacedCount
MaxPlacedCount == 6

PlacedAfter(pl, out, t) ==
    [s \in Sides |->
        IF PlacesFor(out, s) = {} THEN pl[s]
        ELSE [n |-> IF pl[s].n + Cardinality(PlacesFor(out, s)) < MaxPlacedCount
                    THEN pl[s].n + Cardinality(PlacesFor(out, s))
                    ELSE MaxPlacedCount,
              at |-> t]]

\* self.stats.ticks += 1 on a counter of reduced width
TickModulus == 8

TicksAfter(n) == (n + 1) % TickModulus

\* run(), BookTick arm: update_book, then tick() up to the call of
\* state_balanced, which reads the inventory watch a second time
CoordTick(b) ==
    /\ coord_pc = "idle"
    /\ LET lv == update_book(last_valid_book, b)
           ub == usable_book(b, lv)
           br == TickBranch(ofi_rx, ub, inv_rx)
           cs0 == [slots |-> slots, out |-> <<>>]
           cs == CASE br = "toxic" -> global_kill_switch(cs0, cfg)
                   [] br = "hedge" -> state_hedge(cs0, inv_rx, ub, cfg, now)
                   [] OTHER -> cs0
       IN /\ book' = b
          /\ last_valid_book' = lv
          /\ stats' = [stats EXCEPT !.ticks = TicksAfter(@)]
          /\ slots' = cs.slots
          /\ exec_q' = exec_q \o cs.out
          /\ coord_pc' = IF br = "balanced" THEN "balanced" ELSE "idle"
          /\ last_tick' = IF br = "balanced" THEN last_tick
                           ELSE [branch |-> br, out |-> cs.out]
          /\ placed' = PlacedAfter(placed, cs.out, now)
    /\ UNCHANGED <<cfgVars, now, ofiVars, invVars, fill_q, inv_fill_q,
                   exec_fill_q, result_q, execVars, listenerVars>>

\* tick(), Balanced branch: state_balanced on the snapshot it borrows itself
CoordBalanced ==
    /\ coord_pc = "balanced"
    /\ LET ub == usable_book(book, last_valid_book)
           cs == state_balanced([slots |-> slots, out |-> <<>>], ub, inv_rx, cfg, now)
       IN /\ slots' = cs.slots
          /\ exec_q' = exec_q \o cs.out
          /\ last_tick' = [branch |-> IF inv_rx.can_open THEN "balanced" ELSE "gated",
                           out |-> cs.out]
          /\ placed' = PlacedAfter(placed, cs.out, now)
    /\ coord_pc' = "idle"
    /\ UNCHANGED <<cfgVars, now, book, last_valid_book, stats, ofiVars, invVars,
                   fill_q, inv_fill_q, exec_fill_q, result_q, execVars, listenerVars>>

\* run(), OrderResult arm: OrderFailed resets the side's slot
CoordOrderFailed ==
    /\ coord_pc = "idle"
    /\ result_q # <<>>
    /\ slots' = [slots EXCEPT ![Head(result_q).side].active = FALSE,
                              ![Head(result_q).side].price = 0]
    /\ result_q' = Tail(result_q)
    /\ UNCHANGED <<cfgVars, now, book, last_valid_book, stats, coord_pc, last_tick,
                   placed, ofiVars, invVars, fill_q, inv_fill_q, exec_fill_q, exec_q,
                   execVars, listenerVars>>

----------------------------------------------------------------------------
(* Executor (executor.rs) *)

\* fake ids of dry-run placements: format!("dry-{side}-{nanos}")
DryIds == {-1, -2}

EmptyOrders == [i \in {} |-> 0]

\* faulty variant: the failure is reported for the other side
OrderFailedOtherSide(side) == [type |-> "OrderFailed", side |-> OtherSide(side)]

OrderFailed(side) == [type |-> "OrderFailed", side |-> side]

MapInsert(m, id, v) == [i \in DOMAIN m \cup {id} |-> IF i = id THEN v ELSE m[i]]

MapRemove(m, ids) == [i \in DOMAIN m \ ids |-> m[i]]

\* orders.remove(order_id) on every side
RemoveEverywhere(oo, ids) == [s \in Sides |-> MapRemove(oo[s], ids)]

AllOpenIds(oo) == DOMAIN oo["Yes"] \cup DOMAIN oo["No"]

\* place_log keeps the outcomes of the last MaxLogLen placements of a side
MaxLogLen == 4

LogAppend(log, r) ==
    IF Len(log) < MaxLogLen THEN Append(log, r) ELSE Append(Tail(log), r)

\* faulty variant: a placement is accepted on a side that holds an order
ExecPlaceStacking(cmd, res) ==
    IF res = "ok"
    THEN /\ next_oid < MaxOrders
         /\ next_oid' = next_oid + 1
         /\ venue' = MapInsert(venue, next_oid + 1,
                               [side |-> cmd.side, price |-> cmd.price,
                                left |-> cmd.size])
         /\ open_orders' = [open_orders EXCEPT
                              ![cmd.side] = MapInsert(@, next_oid + 1, cmd.size)]
         /\ last_place' = "placed"
         /\ place_log' = [place_log EXCEPT ![cmd.side] = LogAppend(@, "placed")]
         /\ UNCHANGED result_q
    ELSE /\ result_q' = Append(result_q, OrderFailed(cmd.side))
         /\ last_place' = "failed"
         /\ place_log' = [place_log EXCEPT ![cmd.side] = LogAppend(@, "failed")]
         /\ UNCHANGED <<open_orders, next_oid, venue>>

\* Executor::handle_place_bid; res is what place_post_only_order returns
ExecPlace(cmd, res) ==
    IF cfg.dry_run
    THEN \E fake \in DryIds :
            /\ open_orders' = [open_orders EXCEPT
                                 ![cmd.side] = MapInsert(@, fake, cmd.size)]
            /\ last_place' = "dry"
            /\ place_log' = [place_log EXCEPT ![cmd.side] = LogAppend(@, "dry")]
            /\ UNCHANGED <<result_q, next_oid, venue>>
    ELSE IF DOMAIN open_orders[cmd.side] # {}
    THEN /\ result_q' = Append(result_q, OrderFailed(cmd.side))
         /\ last_place' = "refused"
         /\ place_log' = [place_log EXCEPT ![cmd.side] = LogAppend(@, "refused")]
         /\ UNCHANGED <<open_orders, next_oid, venue>>
    ELSE IF res = "ok"
    THEN /\ next_oid < MaxOrders
         /\ next_oid' = next_oid + 1
         /\ venue' = MapInsert(venue, next_oid + 1,
                               [side |-> cmd.side, price |-> cmd.price,
                                left |-> cmd.size])
         /\ open_orders' = [open_orders EXCEPT
                              ![cmd.side] = MapInsert(@, next_oid + 1, cmd.size)]
         /\ last_place' = "placed"
         /\ place_log' = [place_log EXCEPT ![cmd.side] = LogAppend(@, "placed")]
         /\ UNCHANGED result_q
    ELSE /\ result_q' = Append(result_q, OrderFailed(cmd.side))
         /\ last_place' = "failed"
         /\ place_log' = [place_log EXCEPT ![cmd.side] = LogAppend(@, "failed")]
         /\ UNCHANGED <<open_orders, next_oid, venue>>

\* faulty variant: the order is dropped whatever the venue answers
CancelOrdersBlind(oo, ids, ok) == RemoveEverywhere(oo, ids)

\* Executor::handle_cancel_order over the ids asked for: in dry-run every id is
\* dropped, live only those whose remote cancel succeeds (the set ok)
CancelOrders(oo, ids, ok) ==
    IF cfg.dry_run THEN RemoveEverywhere(oo, ids)
    ELSE RemoveEverywhere(oo, ids \cap ok)

\* Executor::handle_cancel_side; the venue drops the orders it cancelled
ExecCancelSide(cmd, ok) ==
    /\ open_orders' = CancelOrders(open_orders, DOMAIN open_orders[cmd.side], ok)
    /\ venue' = MapRemove(venue, ok)
    /\ last_cancel' = [asked |-> DOMAIN open_orders[cmd.side],
                       ok |-> IF cfg.dry_run THEN {} ELSE ok]
    /\ UNCHANGED <<result_q, next_oid, last_place, place_log>>

\* Executor::handle_cancel_all; bulk is the result of cancel_all_orders
ExecCancelAll(cmd, bulk, ok) ==
    /\ open_orders' = IF cfg.dry_run \/ bulk = "ok"
                      THEN [s \in Sides |-> EmptyOrders]
                      ELSE CancelOrders(open_orders, AllOpenIds(open_orders), ok)
    /\ venue' = IF cfg.dry_run THEN venue
                ELSE IF bulk = "ok" THEN MapRemove(venue, DOMAIN venue)
                ELSE MapRemove(venue, ok)
    /\ last_cancel' = [asked |-> AllOpenIds(open_orders),
                       ok |-> IF cfg.dry_run THEN {}
                              ELSE IF bulk = "ok" THEN AllOpenIds(open_orders)
                              ELSE ok]
    /\ UNCHANGED <<result_q, next_oid, last_place, place_log>>

\* faulty variant: a placement is booked as a fill at once
ExecSendsOptimistic(cmd) ==
    IF cmd.type = "PlacePostOnlyBid"
    THEN <<FillEvent(0, cmd.side, cmd.size, cmd.price, "Matched")>>
    ELSE <<>>

\* the FillEvents the Executor sends while it handles cmd: it holds the
\* receiving end of a fill channel and no sending end
ExecSends(cmd) == <<>>

\* Executor::run, command arm
ExecCmd ==
    /\ exec_q # <<>>
    /\ exec_q' = Tail(exec_q)
    /\ inv_fill_q' = inv_fill_q \o ExecSends(Head(exec_q))
    /\ LET cmd == Head(exec_q)
       IN CASE cmd.type = "PlacePostOnlyBid" ->
                 \E res \in {"ok", "err"} : ExecPlace(cmd, res) /\ UNCHANGED last_cancel
            [] cmd.type = "CancelSide" ->
                 \E ok \in SUBSET DOMAIN open_orders[cmd.side] : ExecCancelSide(cmd, ok)
            [] cmd.type = "CancelAll" ->
                 \E bulk \in {"ok", "err"} :
                    \E ok \in SUBSET AllOpenIds(open_orders) : ExecCancelAll(cmd, bulk, ok)
    /\ UNCHANGED <<cfgVars, now, coordVars, ofiVars, invVars, fill_q,
                   exec_fill_q, listenerVars>>

\* Executor::handle_fill_notification
\* faulty variant: an order is dropped only once its remaining size is negative
handle_fill_keeps_empty(oo, fill) ==
    LET orders == oo[fill.side]
    IN IF fill.order_id \notin DOMAIN orders THEN oo
       ELSE IF fill.status = "Failed"
            THEN [oo EXCEPT ![fill.side] = MapRemove(orders, {fill.order_id})]
       ELSE IF orders[fill.order_id] - fill.filled_size < 0
            THEN [oo EXCEPT ![fill.side] = MapRemove(orders, {fill.order_id})]
       ELSE [oo EXCEPT ![fill.side][fill.order_id] = @ - fill.filled_size]

handle_fill_notification(oo, fill) ==
    LET orders == oo[fill.side]
    IN IF fill.order_id \notin DOMAIN orders THEN oo
       ELSE IF fill.status = "Failed"
            THEN [oo EXCEPT ![fill.side] = MapRemove(orders, {fill.order_id})]
       ELSE IF orders[fill.order_id] - fill.filled_size <= 0
            THEN [oo EXCEPT ![fill.side] = MapRemove(orders, {fill.order_id})]
       ELSE [oo EXCEPT ![fill.side][fill.order_id] = @ - fill.filled_size]

\* Executor::run, fill arm
ExecFill ==
    /\ exec_fill_q # <<>>
    /\ open_orders' = handle_fill_notification(open_orders, Head(exec_fill_q))
    /\ exec_fill_q' = Tail(exec_fill_q)
    /\ UNCHANGED <<cfgVars, now, coordVars, ofiVars, invVars, fill_q, inv_fill_q,
                   exec_q, result_q, next_oid, venue, last_place, place_log, last_cancel,
                   listenerVars>>

----------------------------------------------------------------------------
(* User Fill Listener (user_ws.rs) *)

\* DedupCache::new(15 min, ..): the TTL in 5 minute steps
DedupTtl == 3

\* DedupCache::new(.., 50_000): the capacity, scaled down
DedupMaxEntries == 2

\* The cache is the list of its entries [key, ts] in insertion order: every
\* insert reads Instant::now() anew, so insertion order is the order of ts.

\* DedupCache::evict_expired: retain |_, ts| ts >= now - ttl
evict_expired(cache, t) ==
    SelectSeq(cache, LAMBDA e : e.ts >= t - DedupTtl)

\* DedupCache::evict_oldest_if_needed: drop the entries of least ts
RECURSIVE evict_oldest_if_needed(_)
evict_oldest_if_needed(cache) ==
    IF Len(cache) > DedupMaxEntries THEN evict_oldest_if_needed(Tail(cache))
    ELSE cache

CacheKeys(cache) == {cache[i].key : i \in 1..Len(cache)}

\* faulty variant: a cache that forgets at once
remember_nothing(cache, key, t) == [cache |-> <<>>, fresh |-> TRUE]

\* DedupCache::remember: [cache, fresh]
remember(cache, key, t) ==
    LET live == evict_expired(cache, t)
    IN IF key \in CacheKeys(live) THEN [cache |-> live, fresh |-> FALSE]
       ELSE [cache |-> evict_oldest_if_needed(Append(live, [key |-> key, ts |-> t])),
             fresh |-> TRUE]

\* the status match of parse_trade_event; "" is a status that is ignored
MapStatus(status_str) ==
    CASE status_str = "MATCHED" -> "Matched"
      [] status_str \in {"MINED", "CONFIRMED"} -> "Confirmed"
      [] status_str = "FAILED" -> "Failed"
      [] OTHER -> ""

\* faulty variant: one bucket per status
bucket_per_status(status) == status

dedup_bucket(status) == IF status \in SuccessStatuses THEN "SUCCESS" ELSE "FAILED"

\* A trade id, an order id and an event field are integers; 0 is a field that
\* is missing or empty (order id 0 is the "unknown" the code falls back to).

\* event_identity: the first identity field of v that has a value; of the ten
\* fields of FIELDS a message carries id, timestamp and nonce (evt)
event_identity(v) ==
    IF v.id # 0 THEN <<"id", v.id>>
    ELSE IF v.timestamp # 0 THEN <<"timestamp", v.timestamp>>
    ELSE IF v.evt # 0 THEN <<"nonce", v.evt>>
    ELSE <<"none", 0>>

NoIdentity == <<"none", 0>>

\* the dedup key of one maker order of message val
MakerKey(val, mo, status) ==
    IF val.id # 0
    THEN [kind |-> "tid:mo", tid |-> val.id, oid |-> mo.order_id,
          bucket |-> dedup_bucket(status), price |-> 0, size |-> 0,
          evt |-> NoIdentity, mo_evt |-> NoIdentity]
    ELSE [kind |-> "mo", tid |-> 0, oid |-> mo.order_id,
          bucket |-> dedup_bucket(status), price |-> mo.price,
          size |-> mo.matched_amount,
          evt |-> event_identity(val), mo_evt |-> event_identity(mo)]

\* the dedup key of a taker fill
TakerKey(val, status) ==
    IF val.id # 0
    THEN [kind |-> "tid", tid |-> val.id, oid |-> 0,
          bucket |-> dedup_bucket(status), price |-> 0, size |-> 0,
          evt |-> NoIdentity, mo_evt |-> NoIdentity]
    ELSE [kind |-> "oid", tid |-> 0, oid |-> val.taker_order_id,
          bucket |-> dedup_bucket(status), price |-> val.price, size |-> val.size,
          evt |-> event_identity(val), mo_evt |-> NoIdentity]

\* asset_id, else the outcome field, mapped to a side; "" when neither tells
MakerSide(mo) ==
    IF mo.asset_id \in Sides THEN mo.asset_id
    ELSE IF mo.outcome \in Sides THEN mo.outcome ELSE ""

\* The parsers thread [cache, fills, keys]: the dedup cache, the FillEvents
\* pushed so far and, for each of them, the key that remember() found fresh.
NoFills(cache) == [cache |-> cache, fills |-> <<>>, keys |-> <<>>]

\* UserWsListener::parse_maker_fills from maker order i on
RECURSIVE parse_maker_fills(_, _, _, _, _)
parse_maker_fills(val, status, i, acc, t) ==
    IF i > Len(val.maker_orders) THEN acc
    ELSE LET mo == val.maker_orders[i]
             skip == \/ mo.owner # "me"
                     \/ MakerSide(mo) = ""
                     \/ mo.matched_amount <= 0
                     \/ mo.price <= 0
             key == MakerKey(val, mo, status)
             r == remember(acc.cache, key, t)
         IN IF skip THEN parse_maker_fills(val, status, i + 1, acc, t)
            ELSE IF ~r.fresh
            THEN parse_maker_fills(val, status, i + 1,
                                   [acc EXCEPT !.cache = r.cache], t)
            ELSE parse_maker_fills(val, status, i + 1,
                    [cache |-> r.cache,
                     fills |-> Append(acc.fills,
                                 FillEvent(mo.order_id, MakerSide(mo),
                                           mo.matched_amount, mo.price, status)),
                     keys |-> Append(acc.keys, key)], t)

\* UserWsListener::parse_taker_fill
parse_taker_fill(val, status, cache, t) ==
    IF val.asset_id \notin Sides \/ val.size <= 0 \/ val.price <= 0
    THEN NoFills(cache)
    ELSE LET key == TakerKey(val, status)
             r == remember(cache, key, t)
         IN IF ~r.fresh THEN NoFills(r.cache)
            ELSE [cache |-> r.cache,
                  fills |-> <<FillEvent(val.taker_order_id, val.asset_id,
                                        val.size, val.price, status)>>,
                  keys |-> <<key>>]

\* UserWsListener::parse_trade_event
parse_trade_event(val, cache, t) ==
    LET status == MapStatus(val.status)
    IN IF val.event_type # "trade" \/ status = ""
       THEN NoFills(cache)
       ELSE IF val.trader_side = "MAKER"
               \/ (val.trader_side = "" /\ val.maker_orders # <<>>)
       THEN parse_maker_fills(val, status, 1, NoFills(cache), t)
       ELSE parse_taker_fill(val, status, cache, t)

\* a maker order entry of a trade message
MakerOrder(owner, asset_id, order_id, matched_amount, price) ==
    [owner |-> owner, asset_id |-> asset_id, outcome |-> "", order_id |-> order_id,
     matched_amount |-> matched_amount, price |-> price, id |-> 0, timestamp |-> 0,
     evt |-> 0]

\* a trade message in which we are maker
MakerTrade(id, status, maker_orders, evt) ==
    [event_type |-> "trade", id |-> id, status |-> status, trader_side |-> "MAKER",
     maker_orders |-> maker_orders, asset_id |-> "", size |-> 0, price |-> 0,
     taker_order_id |-> 0, timestamp |-> 0, evt |-> evt]

\* a trade message in which we are taker
TakerTrade(id, status, asset_id, taker_order_id, size, price) ==
    [event_type |-> "trade", id |-> id, status |-> status, trader_side |-> "TAKER",
     maker_orders |-> <<>>, asset_id |-> asset_id, size |-> size, price |-> price,
     taker_order_id |-> taker_order_id, timestamp |-> 0, evt |-> 0]

\* the log entries of the FillEvents one message made
RECURSIVE Logged(_, _, _, _)
Logged(fills, keys, t, i) ==
    IF i > Len(fills) THEN <<>>
    ELSE <<[fill |-> fills[i], key |-> keys[i], at |-> t]>>
         \o Logged(fills, keys, t, i + 1)

\* connect_and_listen, read loop: one text message parsed, its fills sent
ListenerHandle(val) ==
    LET r == parse_trade_event(val, dedup, dedup_now)
    IN /\ dedup' = r.cache
       /\ fill_q' = fill_q \o r.fills
       /\ fills_out' = fills_out \o Logged(r.fills, r.keys, dedup_now, 1)

\* first connection: a message is read; it is remembered for a later replay
Deliver(val) ==
    /\ replay.pos > replay.upto
    /\ ListenerHandle(val)
    /\ msgs_in' = Append(msgs_in, [msg |-> val, at |-> dedup_now])
    /\ UNCHANGED <<cfgVars, now, coordVars, ofiVars, invVars, inv_fill_q,
                   exec_fill_q, exec_q, result_q, open_orders, next_oid,
                   last_place, place_log, last_cancel, dedup_now, replay>>

\* a trade message about a trade the venue reported before, or about none of ours
ListenerRecv(val) ==
    /\ Deliver(val)
    /\ UNCHANGED venue

\* the venue matches size shares of our resting bid oid at its price and
\* reports the trade, with a new trade id, on the user channel
VenueTrade(oid, size) ==
    /\ oid \in DOMAIN venue
    /\ size \in 1..venue[oid].left
    /\ Deliver(MakerTrade(Len(msgs_in) + 1, "MATCHED",
                          <<MakerOrder("me", venue[oid].side, oid, size,
                                       venue[oid].price)>>, 0))
    /\ venue' = IF venue[oid].left = size THEN MapRemove(venue, {oid})
                ELSE [venue EXCEPT ![oid].left = @ - size]

\* the venue reports a later status of a trade it reported before
VenueStatus(i, status) ==
    /\ i \in 1..Len(msgs_in)
    /\ msgs_in[i].msg.status = "MATCHED"
    /\ ListenerRecv([msgs_in[i].msg EXCEPT !.status = status])

\* run(): the connection ended and a new one is made; the server delivers the
\* first k messages of the old connection again
Reconnect(k) ==
    /\ replay.pos > replay.upto
    /\ k \in 1..Len(msgs_in)
    /\ replay' = [pos |-> 1, upto |-> k, n |-> replay.n + 1]
    /\ UNCHANGED <<cfgVars, now, coordVars, ofiVars, invVars, fill_q, inv_fill_q,
                   exec_fill_q, exec_q, result_q, execVars, dedup, dedup_now,
                   msgs_in, fills_out>>

\* a replayed message is read on the new connection
ReplayRecv ==
    /\ replay.pos <= replay.upto
    /\ ListenerHandle(msgs_in[replay.pos].msg)
    /\ replay' = [replay EXCEPT !.pos = @ + 1]
    /\ UNCHANGED <<cfgVars, now, coordVars, ofiVars, invVars, inv_fill_q,
                   exec_fill_q, exec_q, result_q, execVars, dedup_now, msgs_in>>

\* time passes for the dedup cache
DedupAdvance ==
    /\ dedup_now' = dedup_now + 1
    /\ UNCHANGED <<cfgVars, now, coordVars, ofiVars, invVars, fill_q, inv_fill_q,
                   exec_fill_q, exec_q, result_q, execVars, dedup, msgs_in,
                   replay, fills_out>>

----------------------------------------------------------------------------
(* OFI Engine (ofi.rs) and the clock *)

TakerSides == {"Buy", "Sell"}

\* MarketDataMsg::TradeTick, as far as the OfiEngine reads it
TradeTick(market_side, taker_side, size, ts) ==
    [market_side |-> market_side, taker_side |-> taker_side, size |-> size, ts |-> ts]

\* struct SideOfi of a window with these volumes
SideOfi(buy_volume, sell_volume, threshold) ==
    [ofi_score |-> buy_volume - sell_volume, buy_volume |-> buy_volume,
     sell_volume |-> sell_volume,
     is_toxic |-> Abs(buy_volume - sell_volume) > threshold]

\* impl Default for SideOfi
DefaultSideOfi ==
    [ofi_score |-> 0, buy_volume |-> 0, sell_volume |-> 0, is_toxic |-> FALSE]

\* struct OfiSnapshot, without its timestamp
OfiSnapshot(yes, no) == [Yes |-> yes, No |-> no]

\* the volume of one taker side in a window
RECURSIVE Volume(_, _)
Volume(ticks, taker_side) ==
    IF ticks = <<>> THEN 0
    ELSE (IF Head(ticks).taker_side = taker_side THEN Head(ticks).size ELSE 0)
         + Volume(Tail(ticks), taker_side)

\* faulty variant: a score at the threshold counts as toxic
compute_at_threshold(ticks, threshold) ==
    [SideOfi(Volume(ticks, "Buy"), Volume(ticks, "Sell"), threshold)
        EXCEPT !.is_toxic = Abs(Volume(ticks, "Buy") - Volume(ticks, "Sell")) >= threshold]

\* SideWindow::compute
compute(ticks, threshold) ==
    SideOfi(Volume(ticks, "Buy"), Volume(ticks, "Sell"), threshold)

\* faulty variant: nothing is ever evicted
SideWindow_keep_all(ticks, t, window) == ticks

\* SideWindow::evict_expired: pop the front while front.ts < now - window (the
\* clock of a running system lies more than one window after its origin)
RECURSIVE SideWindow_evict_expired(_, _, _)
SideWindow_evict_expired(ticks, t, window) ==
    IF ticks # <<>> /\ Head(ticks).ts < t - window
    THEN SideWindow_evict_expired(Tail(ticks), t, window)
    ELSE ticks

\* OfiEngine::run, the tail of every loop iteration: both windows are evicted
\* at Instant::now(), the two sides computed, and the snapshot sent
OfiRefresh(win) ==
    LET live == [s \in Sides |->
                    SideWindow_evict_expired(win[s], now, ofi_cfg.window_duration)]
    IN /\ ofi_win' = live
       /\ ofi_rx' = OfiSnapshot(compute(live["Yes"], ofi_cfg.toxicity_threshold),
                               compute(live["No"], ofi_cfg.toxicity_threshold))

\* run_market_ws: a last_trade_price message is parsed, stamped with
\* Instant::now() and sent to the OfiEngine
MarketTrade(market_side, taker_side, size) ==
    /\ ofi_md_q' = Append(ofi_md_q, TradeTick(market_side, taker_side, size, now))
    /\ UNCHANGED <<cfgVars, now, coordVars, ofi_rx, ofi_win, ofi_ticker, ofi_seen,
                   feedVars, invVars, fill_q, inv_fill_q, exec_fill_q, exec_q, result_q,
                   execVars, listenerVars>>

\* OfiEngine::run, md_rx arm: the trade tick is pushed on its side's window
OfiRecv ==
    /\ ofi_md_q # <<>>
    /\ LET tk == Head(ofi_md_q)
       IN OfiRefresh([ofi_win EXCEPT ![tk.market_side] =
                         Append(@, [taker_side |-> tk.taker_side, size |-> tk.size,
                                    ts |-> tk.ts])])
    /\ ofi_md_q' = Tail(ofi_md_q)
    /\ ofi_seen' = [n |-> ofi_seen.n + 1, at |-> now,
                    toxic |-> ofi_rx'["Yes"].is_toxic \/ ofi_rx'["No"].is_toxic]
    /\ UNCHANGED <<cfgVars, now, coordVars, ofi_ticker, feedVars, invVars, fill_q,
                   inv_fill_q, exec_fill_q, exec_q, result_q, execVars, listenerVars>>

\* OfiEngine::run, ticker arm: the heartbeat is due
OfiBeat ==
    /\ now >= ofi_ticker
    /\ ofi_ticker' = ofi_ticker + ofi_cfg.heartbeat_ms
    /\ OfiRefresh(ofi_win)
    /\ UNCHANGED <<cfgVars, now, coordVars, ofi_md_q, ofi_seen, feedVars, invVars, fill_q,
                   inv_fill_q, exec_fill_q, exec_q, result_q, execVars, listenerVars>>

\* OfiEngine::run seen from its watch channel: a snapshot with these two
\* sides is sent
OfiPublish(yes, no) ==
    /\ ofi_rx' = OfiSnapshot(yes, no)
    /\ ofi_rx' # ofi_rx
    /\ UNCHANGED <<cfgVars, now, coordVars, ofi_md_q, ofi_win, ofi_ticker, ofi_seen,
                   feedVars, invVars, fill_q, inv_fill_q, exec_fill_q, exec_q, result_q,
                   execVars, listenerVars>>

\* the four prices of a book
BookComponents == {"yes_bid", "yes_ask", "no_bid", "no_ask"}

\* faulty variant: every component of the update is stored, zero or not
merge_everything(asm, msg) == msg

\* BookAssembler::update, the merge: non-zero values update the state
merge(asm, msg) ==
    [c \in BookComponents |-> IF msg[c] > 0 THEN msg[c] ELSE asm[c]]

\* BookAssembler::update, the test for a full BookTick
HasAllFour(asm) == \A c \in BookComponents : asm[c] > 0

\* run_market_ws, BookTick arm: a book, price_change or best_bid_ask message
\* was parsed into the partial update msg; the assembler merges it and a full
\* BookTick, if there is one, is sent to the Coordinator
MarketBook(msg) ==
    /\ book_asm' = merge(book_asm, msg)
    /\ md_log' = [in |-> Append(md_log.in, msg),
                  out |-> IF HasAllFour(book_asm') THEN Append(md_log.out, book_asm')
                          ELSE md_log.out]
    /\ UNCHANGED <<cfgVars, now, coordVars, ofi_rx, ofi_md_q, ofi_win, ofi_ticker,
                   ofi_seen, invVars, fill_q, inv_fill_q, exec_fill_q, exec_q,
                   result_q, execVars, listenerVars>>

\* 100 ms pass
Advance ==
    /\ now' = now + 1
    /\ UNCHANGED <<cfgVars, coordVars, ofiVars, invVars, fill_q, inv_fill_q,
                   exec_fill_q, exec_q, result_q, execVars, listenerVars>>

----------------------------------------------------------------------------
(* Session supervisor (main of polymarket_v2.rs) *)

\* sleep(Duration::from_millis(1200)) in 100 ms steps
GraceTicks == 12

\* the session tasks in the order main spawns them; the User Fill Listener
\* only when there are API credentials
SessionTasks == <<"fanout", "inventory", "ofi", "coordinator", "executor", "user_ws">>

\* faulty variant: the listener is spawned without credentials too
SpawnedTasksAlways(api_creds) == SessionTasks

SpawnedTasks(api_creds) ==
    IF api_creds THEN SessionTasks ELSE SubSeq(SessionTasks, 1, 5)

\* the task is spawned and not aborted, and the process lives
Alive(task) ==
    /\ sup.pc \in {"running", "ended", "grace", "abort"}
    /\ \E i \in 1..Len(sup.handles) : sup.handles[i] = task

\* What main finds in its environment: the private key ("none", "bad" or
\* "good"), whether the three API credential variables are set, whether the
\* exchange authenticates the key, whether it derives API credentials for it,
\* and whether the slug is a prefix.
Environment(private_key, env_creds, auth_ok, derive_ok, prefix_mode) ==
    [private_key |-> private_key, env_creds |-> env_creds, auth_ok |-> auth_ok,
     derive_ok |-> derive_ok, prefix_mode |-> prefix_mode]

\* main before its first step
StartOfMain(env) ==
    [pc |-> "init", env |-> env, client |-> FALSE, signer |-> FALSE,
     api_creds |-> FALSE, round |-> 0, deadline |-> "none", handles |-> <<>>,
     cancelled |-> 0, cancel_at |-> 0]

\* main while the market loop of its first round runs, in prefix mode
RunningSession(c) ==
    [pc |-> "running",
     env |-> Environment("good", FALSE, TRUE, TRUE, TRUE),
     client |-> ~c.dry_run, signer |-> ~c.dry_run, api_creds |-> ~c.dry_run,
     round |-> 1, deadline |-> "finite", handles |-> SpawnedTasks(~c.dry_run),
     cancelled |-> 0, cancel_at |-> 0]

\* init_clob_client: [client, signer]
init_clob_client(env) ==
    IF env.private_key # "good" THEN [client |-> FALSE, signer |-> FALSE]
    ELSE IF env.auth_ok THEN [client |-> TRUE, signer |-> TRUE]
    ELSE [client |-> FALSE, signer |-> TRUE]

\* faulty variant: the first live-mode gate lets everything pass
ClientNeverMissing(client, signer) == FALSE

\* the first live-mode gate: clob_client.is_none() || signer.is_none()
ClientMissing(client, signer) == ~client \/ ~signer

\* the API credentials of a live session: "some", or "bail"
live_api_creds(env) ==
    IF env.env_creds THEN "some"
    ELSE IF env.private_key # "none"
         THEN (IF env.private_key = "good" /\ env.derive_ok THEN "some" ELSE "bail")
    ELSE "bail"

\* main: the CLOB client is initialised, and a live process without one ends
MainAuth ==
    /\ sup.pc = "init"
    /\ LET cs == IF cfg.dry_run THEN [client |-> FALSE, signer |-> FALSE]
                 ELSE init_clob_client(sup.env)
       IN sup' = [sup EXCEPT !.client = cs.client, !.signer = cs.signer,
                             !.pc = IF ~cfg.dry_run /\ ClientMissing(cs.client, cs.signer)
                                    THEN "fatal" ELSE "creds"]
    /\ UNCHANGED <<cfg, inv_cfg, ofi_cfg, now, coordVars, ofiVars, invVars, fill_q,
                   inv_fill_q, exec_fill_q, exec_q, result_q, execVars, listenerVars>>

\* main: the API credentials of the fill stream, live mode only
MainCreds ==
    /\ sup.pc = "creds"
    /\ sup' = IF cfg.dry_run THEN [sup EXCEPT !.pc = "resolve"]
              ELSE IF live_api_creds(sup.env) = "some"
              THEN [sup EXCEPT !.api_creds = TRUE, !.pc = "resolve"]
              ELSE [sup EXCEPT !.pc = "fatal"]
    /\ UNCHANGED <<cfg, inv_cfg, ofi_cfg, now, coordVars, ofiVars, invVars, fill_q,
                   inv_fill_q, exec_fill_q, exec_q, result_q, execVars, listenerVars>>

\* the channels and actors of a new session; the venue keeps its orders, the
\* clock goes on
NewSession ==
    /\ book' = DefaultBook
    /\ last_valid_book' = DefaultBook
    /\ slots' = [s \in Sides |-> [DefaultBidSlot EXCEPT !.last_placed = now - SlotStartAge]]
    /\ stats' = [ticks |-> 0]
    /\ coord_pc' = "idle"
    /\ last_tick' = [branch |-> "none", out |-> <<>>]
    /\ placed' = [s \in Sides |-> [n |-> 0, at |-> 0]]
    /\ ofi_rx' = OfiSnapshot(DefaultSideOfi, DefaultSideOfi)
    /\ ofi_md_q' = <<>>
    /\ book_asm' = DefaultBook
    /\ md_log' = [in |-> <<>>, out |-> <<>>]
    /\ ofi_win' = [s \in Sides |-> <<>>]
    /\ ofi_ticker' = now
    /\ ofi_seen' = [n |-> 0, at |-> now, toxic |-> FALSE]
    /\ inv_state' = DefaultInventoryState
    /\ inv_rx' = DefaultInventoryState
    /\ fill_q' = <<>>
    /\ inv_fill_q' = <<>>
    /\ exec_fill_q' = <<>>
    /\ exec_q' = <<>>
    /\ result_q' = <<>>
    /\ open_orders' = [s \in Sides |-> EmptyOrders]
    /\ last_place' = "none"
    /\ place_log' = [s \in Sides |-> <<>>]
    /\ last_cancel' = [asked |-> {}, ok |-> {}]
    /\ dedup' = <<>>
    /\ msgs_in' = <<>>
    /\ replay' = [pos |-> 1, upto |-> 0, n |-> 0]
    /\ fills_out' = <<>>
    /\ UNCHANGED <<cfg, inv_cfg, ofi_cfg, now, next_oid, venue, dedup_now>>

\* main, top of the round loop: the market is resolved and the session's
\* channels and tasks are made, or resolution fails and the round is retried
MainResolve(ok) ==
    /\ sup.pc = "resolve"
    /\ IF ok
       THEN /\ sup' = [sup EXCEPT !.round = @ + 1, !.pc = "spawned",
                                  !.handles = SpawnedTasks(sup.api_creds)]
            /\ NewSession
       ELSE /\ sup' = [sup EXCEPT !.round = @ + 1]
            /\ UNCHANGED <<cfg, inv_cfg, ofi_cfg, now, coordVars, ofiVars, invVars,
                           fill_q, inv_fill_q, exec_fill_q, exec_q, result_q,
                           execVars, listenerVars>>

\* run_market_ws, the deadline Instant::now() + Duration::from_secs(end_ts -
\* now_unix): with a prefix slug end_ts is the end of the interval; with a
\* fixed slug end_ts is u64::MAX, and the sum either overflows the Instant,
\* which panics, or is an instant that no clock reaches
Deadlines(prefix_mode) == IF prefix_mode THEN {"finite"} ELSE {"overflow", "never"}

\* main enters run_market_ws
MainRunMarket(deadline) ==
    /\ sup.pc = "spawned"
    /\ deadline \in Deadlines(sup.env.prefix_mode)
    /\ sup' = [sup EXCEPT !.deadline = deadline,
                          !.pc = IF deadline = "overflow" THEN "panicked" ELSE "running"]
    /\ UNCHANGED <<cfg, inv_cfg, ofi_cfg, now, coordVars, ofiVars, invVars, fill_q,
                   inv_fill_q, exec_fill_q, exec_q, result_q, execVars, listenerVars>>

\* run_market_ws returns MarketEnd::Expired: the deadline has passed
MainExpired ==
    /\ sup.pc = "running"
    /\ sup.deadline = "finite"
    /\ sup' = [sup EXCEPT !.pc = "ended"]
    /\ UNCHANGED <<cfg, inv_cfg, ofi_cfg, now, coordVars, ofiVars, invVars, fill_q,
                   inv_fill_q, exec_fill_q, exec_q, result_q, execVars, listenerVars>>

\* main, cleanup: CancelAll{MarketExpired} is sent on exec_tx
MainCancelAll ==
    /\ sup.pc = "ended"
    /\ exec_q' = Append(exec_q, CancelAllCmd("MarketExpired"))
    /\ sup' = [sup EXCEPT !.pc = "grace", !.cancelled = sup.round, !.cancel_at = now]
    /\ UNCHANGED <<cfg, inv_cfg, ofi_cfg, now, coordVars, ofiVars, invVars, fill_q,
                   inv_fill_q, exec_fill_q, result_q, execVars, listenerVars>>

\* faulty variant: no grace interval
GraceOverAtOnce(t, cancel_at) == TRUE

\* the sleep after CancelAll has ended
GraceOver(t, cancel_at) == t - cancel_at >= GraceTicks

\* main, cleanup: the grace sleep returns
MainGraceOver ==
    /\ sup.pc = "grace"
    /\ GraceOver(now, sup.cancel_at)
    /\ sup' = [sup EXCEPT !.pc = "abort"]
    /\ UNCHANGED <<cfg, inv_cfg, ofi_cfg, now, coordVars, ofiVars, invVars, fill_q,
                   inv_fill_q, exec_fill_q, exec_q, result_q, execVars, listenerVars>>

\* main, cleanup: the next session task is aborted and awaited
MainAbort ==
    /\ sup.pc = "abort"
    /\ sup.handles # <<>>
    /\ sup' = [sup EXCEPT !.handles = Tail(@)]
    /\ UNCHANGED <<cfg, inv_cfg, ofi_cfg, now, coordVars, ofiVars, invVars, fill_q,
                   inv_fill_q, exec_fill_q, exec_q, result_q, execVars, listenerVars>>

\* main, end of the round: fixed mode exits, prefix mode rotates
MainRoundEnd ==
    /\ sup.pc = "abort"
    /\ sup.handles = <<>>
    /\ sup' = [sup EXCEPT !.pc = IF sup.env.prefix_mode THEN "resolve" ELSE "exited"]
    /\ UNCHANGED <<cfg, inv_cfg, ofi_cfg, now, coordVars, ofiVars, invVars, fill_q,
                   inv_fill_q, exec_fill_q, exec_q, result_q, execVars, listenerVars>>

----------------------------------------------------------------------------
(* Configurations and inputs *)

\* CoordinatorConfig::default(), dry_run as given
DefaultCoordinatorConfig(dry_run) ==
    [pair_target |-> 990, bid_size |-> 2, tick_size |-> 1,
     reprice_threshold |-> 5, debounce_ms |-> 2, dry_run |-> dry_run]

\* the configuration of the Coordinator's unit tests, live
CentTickConfig ==
    [pair_target |-> 980, bid_size |-> 2, tick_size |-> 10,
     reprice_threshold |-> 5, debounce_ms |-> 0, dry_run |-> FALSE]

\* CoordinatorConfig::default() with PM_DEBOUNCE_MS=0, live
NoDebounceConfig == [DefaultCoordinatorConfig(FALSE) EXCEPT !.debounce_ms = 0]

\* OfiConfig: window and heartbeat in 100 ms steps, threshold in shares
OfiConfig(window_duration, toxicity_threshold, heartbeat_ms) ==
    [window_duration |-> window_duration, toxicity_threshold |-> toxicity_threshold,
     heartbeat_ms |-> heartbeat_ms]

\* OfiConfig::default()
DefaultOfiConfig == OfiConfig(30, 50, 2)

\* what the watch channel shows of a side: a quiet window, or one sell of 60
OfiReadings == {DefaultSideOfi, SideOfi(0, 60, DefaultOfiConfig.toxicity_threshold)}

\* InventoryConfig: max_net_diff in shares, the two cost limits in mills
InventoryConfig(max_net_diff, max_portfolio_cost, max_position_value) ==
    [max_net_diff |-> max_net_diff, max_portfolio_cost |-> max_portfolio_cost,
     max_position_value |-> max_position_value]

\* InventoryConfig::default()
DefaultInventoryConfig == InventoryConfig(10, 1020, 5000)

\* books as the BookAssembler forwards them: all four prices present
BookCheapYes == MkBook(340, 360, 590, 610)

BookCheapNo == MkBook(590, 610, 370, 390)

BookEdge == MkBook(10, 20, 980, 990)

\* BookCheapYes after the YES side moved up by two cents
BookYesUp == MkBook(360, 380, 590, 610)

InitSession(c, ic, oc) ==
    /\ cfg = c
    /\ inv_cfg = ic
    /\ ofi_cfg = oc
    /\ ofi_md_q = <<>>
    /\ book_asm = DefaultBook
    /\ md_log = [in |-> <<>>, out |-> <<>>]
    /\ ofi_win = [s \in Sides |-> <<>>]
    /\ ofi_ticker = 0
    /\ ofi_seen = [n |-> 0, at |-> 0, toxic |-> FALSE]
    /\ now = 0
    /\ book = DefaultBook
    /\ last_valid_book = DefaultBook
    /\ slots = [s \in Sides |-> DefaultBidSlot]
    /\ stats = [ticks |-> 0]
    /\ coord_pc = "idle"
    /\ ofi_rx = OfiSnapshot(DefaultSideOfi, DefaultSideOfi)
    /\ inv_state = DefaultInventoryState
    /\ inv_rx = DefaultInventoryState
    /\ fill_q = <<>>
    /\ inv_fill_q = <<>>
    /\ exec_fill_q = <<>>
    /\ exec_q = <<>>
    /\ result_q = <<>>
    /\ open_orders = [s \in Sides |-> EmptyOrders]
    /\ next_oid = 0
    /\ dedup = <<>>
    /\ dedup_now = 0
    /\ msgs_in = <<>>
    /\ replay = [pos |-> 1, upto |-> 0, n |-> 0]
    /\ fills_out = <<>>
    /\ venue = EmptyOrders
    /\ last_tick = [branch |-> "none", out |-> <<>>]
    /\ placed = [s \in Sides |-> [n |-> 0, at |-> 0]]
    /\ last_place = "none"
    /\ place_log = [s \in Sides |-> <<>>]
    /\ last_cancel = [asked |-> {}, ok |-> {}]

InitWith(c, ic) ==
    /\ InitSession(c, ic, DefaultOfiConfig)
    /\ sup = RunningSession(c)

----------------------------------------------------------------------------
(* The pipeline of one session: all actors, default configuration *)

Init ==
    \E dry \in BOOLEAN :
        InitWith(DefaultCoordinatorConfig(dry), InventoryConfig(2, 1020, 5000))

Next ==
    \/ \E y, n \in OfiReadings : OfiPublish(y, n)
    \/ now < MaxTime /\ Advance
    \/ stats.ticks < MaxTicks /\ \E b \in {BookCheapYes, BookCheapNo} : CoordTick(b)
    \/ CoordBalanced
    \/ CoordOrderFailed
    \/ ExecCmd
    \/ ExecFill
    \/ Len(msgs_in) < MaxMsgs
       /\ \E oid \in DOMAIN venue : VenueTrade(oid, venue[oid].left)
    \/ Len(msgs_in) < MaxMsgs
       /\ \E i \in 1..Len(msgs_in) : VenueStatus(i, "FAILED")
    \/ Fanout
    \/ InvRecv

Spec == Init /\ [][Next]_vars

----------------------------------------------------------------------------
(* Quoting: Coordinator, Executor and Inventory Manager, live, no debounce, *)
(* fed by fills of the resting bids at their posted prices                 *)

QuoteInit == InitWith(NoDebounceConfig, DefaultInventoryConfig)

QuoteNext ==
    \/ stats.ticks < MaxQuoteTicks
       /\ \E b \in {BookCheapYes, BookCheapNo} : CoordTick(b)
    \/ CoordBalanced
    \/ CoordOrderFailed
    \/ ExecCmd
    \/ ExecFill
    \/ Len(msgs_in) < MaxQuoteMsgs
       /\ \E oid \in DOMAIN venue : VenueTrade(oid, venue[oid].left)
    \/ Fanout
    \/ InvRecv

QuoteSpec == QuoteInit /\ [][QuoteNext]_vars

----------------------------------------------------------------------------
(* Kill switch: Coordinator and Executor, live, no debounce, on one book,  *)
(* under OFI snapshots that turn toxic and back                            *)

MaxKillTicks == 3

KillInit == InitWith(NoDebounceConfig, DefaultInventoryConfig)

KillNext ==
    \/ \E y, n \in OfiReadings : OfiPublish(y, n)
    \/ stats.ticks < MaxKillTicks /\ CoordTick(BookCheapYes)
    \/ CoordBalanced
    \/ CoordOrderFailed
    \/ ExecCmd

KillSpec == KillInit /\ [][KillNext]_vars

----------------------------------------------------------------------------
(* A remote cancel that fails once: Coordinator and Executor, live, no      *)
(* debounce, non-toxic flow, no fills; book ticks never stop, and each tick *)
(* finds the commands and results of the tick before it processed           *)

BlockInit == InitWith(NoDebounceConfig, DefaultInventoryConfig)

\* no remote call has failed so far, as far as place_log and last_cancel tell
NoFailureYet ==
    /\ last_cancel.ok = last_cancel.asked
    /\ \A s \in Sides : \A i \in 1..Len(place_log[s]) : place_log[s][i] # "refused"

BlockTick ==
    /\ exec_q = <<>>
    /\ result_q = <<>>
    /\ \E b \in {BookCheapYes, BookYesUp} : CoordTick(b)

\* the Executor handles a command; the venue accepts every placement and
\* fails a cancel only if no remote call has failed before
BlockExec ==
    /\ ExecCmd
    /\ last_place' # "failed"
    /\ Head(exec_q).type = "CancelSide" =>
          (last_cancel'.ok = last_cancel'.asked \/ NoFailureYet)

BlockNext ==
    \/ BlockTick
    \/ CoordBalanced
    \/ CoordOrderFailed
    \/ BlockExec

BlockSpec == BlockInit /\ [][BlockNext]_vars

\* every task is scheduled again and again
BlockFairSpec ==
    /\ BlockSpec
    /\ WF_vars(BlockTick)
    /\ WF_vars(CoordBalanced)
    /\ WF_vars(CoordOrderFailed)
    /\ WF_vars(BlockExec)

----------------------------------------------------------------------------
(* Order lifecycle: Coordinator and Executor, live, with the User Fill      *)
(* Listener reporting partial, full and excess fills and failures of        *)
(* tracked and untracked orders                                             *)

MaxFillTicks == 1

MaxFillMsgs == 2

\* maker trade messages about order oid of side: amount shares, any status
FillReports(id) ==
    {MakerTrade(id, status, <<MakerOrder("me", side, oid, amount, 400)>>, 0) :
        status \in {"MATCHED", "CONFIRMED", "FAILED"}, side \in Sides,
        oid \in 1..MaxOrders, amount \in 1..3}

FillInit == InitWith(NoDebounceConfig, DefaultInventoryConfig)

FillNext ==
    \/ stats.ticks < MaxFillTicks /\ CoordTick(BookCheapYes)
    \/ CoordBalanced
    \/ CoordOrderFailed
    \/ ExecCmd
    \/ Len(msgs_in) < MaxFillMsgs
       /\ \E val \in FillReports(Len(msgs_in) + 1) : ListenerRecv(val)
    \/ Fanout
    \/ ExecFill

FillSpec == FillInit /\ [][FillNext]_vars

----------------------------------------------------------------------------
(* The market feed: partial book updates of either side, with prices that   *)
(* are present or missing, merged by the BookAssembler                      *)

MaxBookMsgs == 4

\* parse_ws_message: the best bid and ask of one side, 0 for a missing price,
\* the other side's prices 0
PartialBooks ==
    {MkBook(b, a, 0, 0) : b \in {0, 340, 350}, a \in {0, 360}}
    \cup {MkBook(0, 0, b, a) : b \in {0, 590}, a \in {0, 610, 620}}

FeedInit == InitWith(NoDebounceConfig, DefaultInventoryConfig)

FeedNext == Len(md_log.in) < MaxBookMsgs /\ \E msg \in PartialBooks : MarketBook(msg)

FeedSpec == FeedInit /\ [][FeedNext]_vars

----------------------------------------------------------------------------
(* Resting orders: Coordinator, Executor, listener and Inventory Manager,   *)
(* live, against a venue that matches the resting bids in part or in full   *)
(* and may report a matched trade as FAILED later                           *)

MaxRestTicks == 2

MaxRestMsgs == 2

RestInit == InitWith(NoDebounceConfig, DefaultInventoryConfig)

RestNext ==
    \/ stats.ticks < MaxRestTicks /\ CoordTick(BookCheapYes)
    \/ CoordBalanced
    \/ CoordOrderFailed
    \/ ExecCmd
    \/ Len(msgs_in) < MaxRestMsgs
       /\ \E oid \in DOMAIN venue : \E size \in 1..venue[oid].left : VenueTrade(oid, size)
    \/ Len(msgs_in) < MaxRestMsgs
       /\ \E i \in 1..Len(msgs_in) : VenueStatus(i, "FAILED")
    \/ Fanout
    \/ ExecFill
    \/ InvRecv

RestSpec == RestInit /\ [][RestNext]_vars

----------------------------------------------------------------------------
(* Pricing: the Coordinator of a fresh live session over a grid of books,   *)
(* with the default tick and with the cent tick                            *)

PriceLevels == {10, 500, 980}

\* a market close to resolution: YES at 0.001 / 0.003, NO at 0.997 / 0.999
BookFarApart == MkBook(1, 3, 997, 999)

PriceBooks ==
    {MkBook(yb, yb + 10, nb, nb + 10) : yb \in PriceLevels, nb \in PriceLevels}
    \cup {BookFarApart}

PriceInit ==
    \E c \in {NoDebounceConfig, CentTickConfig} : InitWith(c, DefaultInventoryConfig)

PriceNext ==
    \/ stats.ticks < MaxPriceTicks /\ \E b \in PriceBooks : CoordTick(b)
    \/ CoordBalanced

PriceSpec == PriceInit /\ [][PriceNext]_vars

----------------------------------------------------------------------------
(* Balanced quoting: the Coordinator of a fresh session, live with the      *)
(* default and the cent tick and in dry-run, over the grid of books         *)

BalancedInit ==
    \E c \in {NoDebounceConfig, CentTickConfig, DefaultCoordinatorConfig(TRUE)} :
        InitWith(c, DefaultInventoryConfig)

BalancedNext ==
    \/ stats.ticks < MaxPriceTicks /\ \E b \in PriceBooks : CoordTick(b)
    \/ CoordBalanced

BalancedSpec == BalancedInit /\ [][BalancedNext]_vars

----------------------------------------------------------------------------
(* The Inventory Manager behind the listener and the fan-out, under the     *)
(* default limits and under limits set through PM_MAX_NET_DIFF and          *)
(* PM_MAX_POSITION_VALUE                                                    *)

InventoryConfigs ==
    {DefaultInventoryConfig, InventoryConfig(0, 1020, 5000), InventoryConfig(2, 1020, 1000)}

\* maker trades of ours with trade id id
InvMsgs(id) ==
    {MakerTrade(id, "MATCHED", <<MakerOrder("me", side, 1, size, price)>>, 0) :
        side \in Sides, size \in {1, 3}, price \in {400, 600}}
    \cup {MakerTrade(id, "CONFIRMED", <<MakerOrder("me", side, 1, 1, 600)>>, 0) :
             side \in Sides}
    \cup {MakerTrade(id, "FAILED", <<MakerOrder("me", side, 1, size, 400)>>, 0) :
             side \in Sides, size \in {1, 3}}

InvInit == \E ic \in InventoryConfigs : InitWith(DefaultCoordinatorConfig(FALSE), ic)

InvNext ==
    \/ Len(msgs_in) < MaxInvMsgs
       /\ \E val \in InvMsgs(Len(msgs_in) + 1) : ListenerRecv(val)
    \/ Fanout
    \/ InvRecv

InvSpec == InvInit /\ [][InvNext]_vars

----------------------------------------------------------------------------
(* The User Fill Listener alone: messages, reconnects with replay, and the  *)
(* passing of time                                                          *)

OurYes == MakerOrder("me", "Yes", 1, 2, 500)

OurNo == MakerOrder("me", "No", 2, 1, 480)

ListenerMsgs ==
    {MakerTrade(1, "MATCHED", <<OurYes>>, 0),
     MakerTrade(1, "CONFIRMED", <<OurYes>>, 0),
     MakerTrade(1, "FAILED", <<OurYes>>, 0),
     MakerTrade(2, "MATCHED", <<OurYes, OurNo>>, 0),
     TakerTrade(1, "MATCHED", "Yes", 1, 2, 500),
     MakerTrade(0, "MATCHED", <<OurYes>>, 7)}

ListenerInit == InitWith(DefaultCoordinatorConfig(FALSE), DefaultInventoryConfig)

ListenerNext ==
    \/ Len(msgs_in) < MaxListenerMsgs /\ \E val \in ListenerMsgs : ListenerRecv(val)
    \/ replay.n < MaxReconnects /\ \E k \in 1..Len(msgs_in) : Reconnect(k)
    \/ ReplayRecv
    \/ dedup_now < MaxDedupTime /\ DedupAdvance

ListenerSpec == ListenerInit /\ [][ListenerNext]_vars

----------------------------------------------------------------------------
(* Partial fills reported without a trade id: every message is a trade of   *)
(* its own, told apart by its nonce; messages of the same second carry the  *)
(* same timestamp; a reconnect replays messages. No time passes and the     *)
(* messages fit the cache, so that no key expires or is evicted.            *)

MaxPartialMsgs == 2

\* a trade message without a trade id that fills size shares of our order
\* order_id at 0.500
PartialTrade(order_id, size, timestamp, nonce) ==
    [TakerTrade(0, "MATCHED", "Yes", order_id, size, 500)
        EXCEPT !.timestamp = timestamp, !.evt = nonce]

PartialInit == ListenerInit

PartialNext ==
    \/ /\ Len(msgs_in) < MaxPartialMsgs
       /\ \E order_id \in 1..2, size \in 1..2, timestamp \in 0..1 :
             ListenerRecv(PartialTrade(order_id, size, timestamp, Len(msgs_in) + 1))
    \/ replay.n < MaxReconnects /\ \E k \in 1..Len(msgs_in) : Reconnect(k)
    \/ ReplayRecv

PartialSpec == PartialInit /\ [][PartialNext]_vars

----------------------------------------------------------------------------
(* The dedup cache under load: trades with ids of their own, some reported  *)
(* again, more trades than the cache holds, and the passing of time         *)

MaxCacheMsgs == 4

MaxTradeId == 3

CacheInit == ListenerInit

CacheNext ==
    \/ /\ Len(msgs_in) < MaxCacheMsgs
       /\ \E id \in 1..MaxTradeId :
             ListenerRecv(TakerTrade(id, "MATCHED", "Yes", 1, 2, 500))
    \/ dedup_now < MaxDedupTime /\ DedupAdvance

CacheSpec == CacheInit /\ [][CacheNext]_vars

----------------------------------------------------------------------------
(* Hedging on thin books: the Coordinator fed BookTicks in which an ask is  *)
(* missing, behind an inventory that fills of ours have moved               *)

BookNoAskGone == MkBook(340, 360, 590, 0)

BookYesAskGone == MkBook(340, 0, 590, 610)

HedgeBooks == {BookCheapYes, BookNoAskGone, BookYesAskGone}

\* a fill of two shares of ours at 0.400, trade id id
HedgeFills(id) ==
    {MakerTrade(id, "MATCHED", <<MakerOrder("me", side, 1, 2, 400)>>, 0) : side \in Sides}

HedgeInit == InitWith(NoDebounceConfig, DefaultInventoryConfig)

HedgeNext ==
    \/ stats.ticks < MaxHedgeTicks /\ \E b \in HedgeBooks : CoordTick(b)
    \/ CoordBalanced
    \/ Len(msgs_in) < MaxHedgeMsgs
       /\ \E val \in HedgeFills(Len(msgs_in) + 1) : ListenerRecv(val)
    \/ Fanout
    \/ InvRecv

HedgeSpec == HedgeInit /\ [][HedgeNext]_vars

----------------------------------------------------------------------------
(* The inventory gate: the Coordinator, live and without debounce, behind   *)
(* an inventory that fills of ours close, with PM_MAX_NET_DIFF=2 and with   *)
(* PM_MAX_POSITION_VALUE=0.7                                                *)

GateConfigs == {InventoryConfig(2, 1020, 5000), InventoryConfig(10, 1020, 700)}

GateInit == \E ic \in GateConfigs : InitWith(NoDebounceConfig, ic)

GateNext ==
    \/ stats.ticks < MaxGateTicks
       /\ \E b \in {BookCheapYes, BookCheapNo} : CoordTick(b)
    \/ CoordBalanced
    \/ Len(msgs_in) < MaxGateMsgs
       /\ \E val \in HedgeFills(Len(msgs_in) + 1) : ListenerRecv(val)
    \/ Fanout
    \/ InvRecv

GateSpec == GateInit /\ [][GateNext]_vars

----------------------------------------------------------------------------
(* The OFI Engine alone, with PM_OFI_WINDOW_MS at 300 and at 400, the       *)
(* default heartbeat, and the threshold at its default and at the size of   *)
(* one trade; its heartbeat fires when it is due                            *)

OfiConfigs == {OfiConfig(3, 50, 2), OfiConfig(4, 50, 2), OfiConfig(4, 60, 2)}

OfiInit ==
    \E oc \in OfiConfigs :
        /\ InitSession(DefaultCoordinatorConfig(FALSE), DefaultInventoryConfig, oc)
        /\ sup = RunningSession(DefaultCoordinatorConfig(FALSE))

OfiNext ==
    \/ ofi_seen.n + Len(ofi_md_q) < MaxOfiTrades
       /\ \E s \in Sides, tk \in TakerSides : MarketTrade(s, tk, 60)
    \/ OfiRecv
    \/ OfiBeat
    \/ now < MaxOfiTime /\ now < ofi_ticker /\ Advance

OfiSpec == OfiInit /\ [][OfiNext]_vars

----------------------------------------------------------------------------
(* The process from its start: main with the tasks it spawns, live and      *)
(* dry-run, prefix and fixed slug, over what the environment can answer     *)

\* live: every answer of the environment; dry-run reads neither the key nor
\* the credentials, so one environment per slug kind stands for all
Environments(dry) ==
    {Environment(pk, ec, a, d, pm) :
        pk \in IF dry THEN {"none"} ELSE {"none", "bad", "good"},
        ec \in IF dry THEN {FALSE} ELSE BOOLEAN,
        a \in IF dry THEN {FALSE} ELSE BOOLEAN,
        d \in IF dry THEN {FALSE} ELSE BOOLEAN,
        pm \in BOOLEAN}

MainInit ==
    \E dry \in BOOLEAN : \E env \in Environments(dry) :
        /\ InitSession(DefaultCoordinatorConfig(dry), DefaultInventoryConfig,
                       DefaultOfiConfig)
        /\ sup = StartOfMain(env)

MainNext ==
    \/ MainAuth
    \/ MainCreds
    \/ sup.round < MaxRounds /\ \E ok \in BOOLEAN : MainResolve(ok)
    \/ \E d \in {"finite", "overflow", "never"} : MainRunMarket(d)
    \/ MainExpired
    \/ MainCancelAll
    \/ MainGraceOver
    \/ MainAbort
    \/ MainRoundEnd
    \/ sup.pc = "grace" /\ now < MaxMainTime /\ Advance
    \/ Alive("coordinator") /\ stats.ticks < MaxMainTicks /\ CoordTick(BookCheapYes)
    \/ Alive("coordinator") /\ CoordBalanced
    \/ Alive("coordinator") /\ CoordOrderFailed
    \/ Alive("executor") /\ ExecCmd
    \/ Alive("executor") /\ ExecFill
    \/ Alive("user_ws") /\ Len(msgs_in) < MaxMainMsgs
       /\ \E val \in HedgeFills(Len(msgs_in) + 1) : ListenerRecv(val)
    \/ Alive("fanout") /\ Fanout
    \/ Alive("inventory") /\ InvRecv

MainSpec == MainInit /\ [][MainNext]_vars

----------------------------------------------------------------------------
(* Properties of the pipeline (Spec) *)

\* the commands a step appends to the command channel
NewCmds == SubSeq(exec_q', Len(exec_q) + 1, Len(exec_q'))

Range(q) == {q[i] : i \in 1..Len(q)}

\* the step is a book tick handled while OFI marks a side toxic
ToxicTickStep ==
    /\ stats'.ticks = stats.ticks + 1
    /\ ofi_rx.Yes.is_toxic \/ ofi_rx.No.is_toxic

NoPlaceSent == \A cmd \in Range(NewCmds) : cmd.type # "PlacePostOnlyBid"

ExecCmdStep == exec_q # <<>> /\ exec_q' = Tail(exec_q)

ExecFillStep == exec_fill_q # <<>> /\ exec_fill_q' = Tail(exec_fill_q)

\* the step is the Inventory Manager applying the fill at the head of its channel
InvStep == inv_fill_q # <<>> /\ inv_fill_q' = Tail(inv_fill_q)

\* C3: each side of the Executor's open_orders holds at most one order; an
\* order is inserted only by a successful placement on an empty side; it is
\* removed only by a full fill, a Failed fill or a cancel command; and a
\* PlacePostOnlyBid that finds its side non-empty is refused with OrderFailed.
C3_OneOrderPerSide ==
    [][\A s \in Sides :
          /\ Cardinality(DOMAIN open_orders'[s]) <= 1
          /\ DOMAIN open_orders'[s] \ DOMAIN open_orders[s] # {} =>
                /\ ExecCmdStep
                /\ Head(exec_q) = PlaceCmd(s, Head(exec_q).price, Head(exec_q).size,
                                           Head(exec_q).reason)
                /\ DOMAIN open_orders[s] = {}
                /\ result_q' = result_q
          /\ \A id \in DOMAIN open_orders[s] \ DOMAIN open_orders'[s] :
                \/ /\ ExecFillStep
                   /\ Head(exec_fill_q).order_id = id
                   /\ \/ Head(exec_fill_q).status = "Failed"
                      \/ Head(exec_fill_q).filled_size >= open_orders[s][id]
                \/ /\ ExecCmdStep
                   /\ Head(exec_q).type \in {"CancelSide", "CancelAll"}
          /\ (ExecCmdStep /\ Head(exec_q).type = "PlacePostOnlyBid"
              /\ Head(exec_q).side = s /\ DOMAIN open_orders[s] # {}) =>
                /\ open_orders' = open_orders
                /\ result_q' = Append(result_q, OrderFailed(s))]_vars

\* a placement was refused because the side holds an order
C3_Witness ==
    /\ last_place = "refused"
    /\ \E s \in Sides : Cardinality(DOMAIN open_orders[s]) = 1

LoggedFills == {fills_out[i].fill : i \in 1..Len(fills_out)}

\* C4: no Executor step adds an event to a fill channel; every event in a
\* fill channel was sent by the User Fill Listener; and the inventory changes
\* only in a step of the Inventory Manager that takes such an event from its
\* channel and applies it.
C4_SingleSource ==
    [][/\ (ExecCmdStep \/ ExecFillStep) =>
             /\ fill_q' = fill_q
             /\ inv_fill_q' = inv_fill_q
             /\ Len(exec_fill_q') <= Len(exec_fill_q)
       /\ Range(fill_q') \cup Range(inv_fill_q') \cup Range(exec_fill_q')
             \subseteq {fills_out'[i].fill : i \in 1..Len(fills_out')}
       /\ inv_state' # inv_state =>
             /\ inv_fill_q # <<>>
             /\ inv_fill_q' = Tail(inv_fill_q)
             /\ Head(inv_fill_q) \in LoggedFills
             /\ inv_state' = apply_fill(inv_state, inv_cfg, Head(inv_fill_q))]_vars

\* the Executor has placed an order and the inventory holds a fill
C4_Witness ==
    /\ last_place = "placed"
    /\ inv_state.yes_qty + inv_state.no_qty > 0

\* C9: per side, a PlacePostOnlyBid is sent at most once per step, and never
\* less than debounce_ms after the one before it.
C9_Debounce ==
    [][\A s \in Sides :
          placed'[s].n # placed[s].n =>
             /\ placed'[s].n = placed[s].n + 1
             /\ placed[s].n = 0 \/ now - placed[s].at >= cfg.debounce_ms]_vars

\* a side has been quoted twice
C9_Witness == \E s \in Sides : placed[s].n >= 2

\* the FillEvents the listener has sent, in order
SentFills == [i \in 1..Len(fills_out) |-> fills_out[i].fill]

\* the step is the fan-out task taking a FillEvent from the listener's channel
FanoutStep == fill_q # <<>> /\ fill_q' = Tail(fill_q)

\* C16: what the listener sends enters its channel in the order sent; the
\* fan-out appends each FillEvent it takes to the Inventory Manager's channel
\* and to the Executor's, and nothing else enters or leaves those channels
\* but a receiver taking the head; the Inventory Manager applies the head it
\* takes and publishes the state that results, and its state and snapshot
\* change in no other step; the Executor handles the head it takes.
C16_FanoutInOrder ==
    [][/\ fill_q' # fill_q =>
             \/ FanoutStep
             \/ \E k \in 1..Len(fills_out') :
                   /\ SentFills' = SentFills \o SubSeq(SentFills', k, Len(fills_out'))
                   /\ fill_q' = fill_q \o SubSeq(SentFills', k, Len(fills_out'))
       /\ FanoutStep =>
             /\ inv_fill_q' = Append(inv_fill_q, Head(fill_q))
             /\ exec_fill_q' = Append(exec_fill_q, Head(fill_q))
       /\ ~FanoutStep =>
             /\ inv_fill_q' = inv_fill_q \/ InvStep
             /\ exec_fill_q' = exec_fill_q \/ ExecFillStep
       /\ InvStep =>
             /\ inv_state' = apply_fill(inv_state, inv_cfg, Head(inv_fill_q))
             /\ inv_rx' = inv_state'
       /\ (inv_state' # inv_state \/ inv_rx' # inv_rx) => InvStep
       /\ ExecFillStep =>
             open_orders' = handle_fill_notification(open_orders, Head(exec_fill_q))]_vars

\* the listener sent a Matched and a Failed FillEvent, and both receivers
\* have taken both
C16_Witness ==
    /\ Len(fills_out) = 2
    /\ fills_out[1].fill.status = "Matched"
    /\ fills_out[2].fill.status = "Failed"
    /\ fill_q = <<>>
    /\ inv_fill_q = <<>>
    /\ exec_fill_q = <<>>
    /\ inv_state.yes_qty + inv_state.no_qty = 0

\* the step is the Executor handling a cancel command
ExecCancelStep == ExecCmdStep /\ Head(exec_q).type \in {"CancelSide", "CancelAll"}

\* C13: when the Executor handles a cancel, an order whose remote cancel did
\* not succeed stays in open_orders on its side with its remaining size, and
\* an order leaves the map only when its remote cancel succeeded.
C13_CancelFailedKept ==
    [][ExecCancelStep =>
          \A s \in Sides : \A id \in DOMAIN open_orders[s] :
             /\ id \notin last_cancel'.ok =>
                   /\ id \in DOMAIN open_orders'[s]
                   /\ open_orders'[s][id] = open_orders[s][id]
             /\ id \notin DOMAIN open_orders'[s] => id \in last_cancel'.ok]_vars

\* a cancel was asked for, the venue refused it, and the order is still tracked
C13_Witness ==
    /\ last_cancel.asked # {}
    /\ last_cancel.ok = {}
    /\ last_cancel.asked \subseteq AllOpenIds(open_orders)

\* the step is the Coordinator taking an OrderResult from its channel
CoordResultStep == result_q # <<>> /\ result_q' = Tail(result_q)

\* C14: a PlacePostOnlyBid that is refused or fails inserts nothing into
\* open_orders and sends exactly one OrderFailed for its side; when the
\* Coordinator takes an OrderFailed, that side's slot becomes inactive with
\* price 0 and the other side's slot is unchanged.
C14_PlaceFailed ==
    [][/\ (/\ ExecCmdStep
           /\ Head(exec_q).type = "PlacePostOnlyBid"
           /\ last_place' \in {"refused", "failed"}) =>
             /\ open_orders' = open_orders
             /\ result_q' = Append(result_q, [type |-> "OrderFailed",
                                              side |-> Head(exec_q).side])
       /\ CoordResultStep =>
             LET s == Head(result_q).side
             IN /\ slots'[s] = [slots[s] EXCEPT !.active = FALSE, !.price = 0]
                /\ slots'[OtherSide(s)] = slots[OtherSide(s)]]_vars

\* a placement failed, the Coordinator cleared the slot, and a later tick has
\* sent that side's bid again while the other side kept its own
C14_Witness ==
    /\ last_place = "failed"
    /\ result_q = <<>>
    /\ \E s \in Sides :
          /\ placed[s].n = 2
          /\ slots[s].active
          /\ DOMAIN open_orders[s] = {}
          /\ exec_q = <<PlaceCmd(s, slots[s].price, cfg.bid_size, "Provide")>>
          /\ DOMAIN open_orders[OtherSide(s)] # {}
----------------------------------------------------------------------------
(* Properties of quoting (QuoteSpec) and pricing (PriceSpec) *)

\* the inventory after cmd is filled whole at its price
AfterFillOf(cmd) ==
    apply_fill(inv_state, inv_cfg,
               FillEvent(0, cmd.side, cmd.size, cmd.price, "Matched"))

PairCost(st) == RatAdd(st.yes_avg_cost, st.no_avg_cost)

\* C2 as stated: when a Hedge bid is sent and then fills at its posted price,
\* the resulting inventory has yes_avg_cost + no_avg_cost <= pair_target.
C2_AsStated ==
    [][\A cmd \in Range(NewCmds) :
          (cmd.type = "PlacePostOnlyBid" /\ cmd.reason = "Hedge") =>
             RatLe(PairCost(AfterFillOf(cmd)), <<cfg.pair_target, 1>>)]_vars

\* C10 as stated: every PlacePostOnlyBid price is a multiple of tick_size and
\* lies in [0.001, 0.999].
C10_AsStated ==
    \A cmd \in Range(exec_q) :
        cmd.type = "PlacePostOnlyBid" =>
           /\ cmd.price % cfg.tick_size = 0
           /\ cmd.price >= PriceMin
           /\ cmd.price <= PriceMax

\* the price of the PlacePostOnlyBid for side among the commands out
PlacePrice(out, side) == out[CHOOSE i \in PlacesFor(out, side) : TRUE].price

\* C12 as stated: on every Balanced tick that quotes both sides, the two bid
\* prices satisfy bid_yes + bid_no <= pair_target + tick_size.
C12_AsStated ==
    (/\ last_tick.branch = "balanced"
     /\ \A s \in Sides : PlacesFor(last_tick.out, s) # {})
    => PlacePrice(last_tick.out, "Yes") + PlacePrice(last_tick.out, "No")
          <= cfg.pair_target + cfg.tick_size

----------------------------------------------------------------------------
(* Properties of the Inventory Manager (InvSpec) *)

Held(st, side) == IF side = "Yes" THEN st.yes_qty ELSE st.no_qty

AvgOf(st, side) == IF side = "Yes" THEN st.yes_avg_cost ELSE st.no_avg_cost

\* C7: after every fill both quantities are >= 0, a side whose quantity is
\* zero has average cost zero, and a Failed fill of more than the side holds
\* leaves the side at zero.
C7_NonNegative ==
    [][InvStep =>
          /\ \A s \in Sides :
                /\ Held(inv_state', s) >= 0
                /\ Held(inv_state', s) = 0 => AvgOf(inv_state', s) = Zero
          /\ inv_rx' = inv_state'
          /\ LET fill == Head(inv_fill_q)
             IN (fill.status = "Failed"
                 /\ fill.filled_size > Held(inv_state, fill.side)) =>
                    Held(inv_state', fill.side) = 0]_vars

\* a Failed fill of 3 was applied to a side that held 1
C7_Witness ==
    /\ Len(msgs_in) = 2
    /\ msgs_in[1].msg.status = "MATCHED"
    /\ msgs_in[2].msg.status = "FAILED"
    /\ msgs_in[1].msg.maker_orders[1].asset_id = "Yes"
    /\ msgs_in[2].msg.maker_orders[1].asset_id = "Yes"
    /\ msgs_in[1].msg.maker_orders[1].matched_amount = 1
    /\ msgs_in[2].msg.maker_orders[1].matched_amount = 3
    /\ fill_q = <<>>
    /\ inv_fill_q = <<>>
    /\ inv_state.yes_qty = 0

\* C8 as stated: in every snapshot on the inventory watch channel, the initial
\* one included, can_open is the conjunction of the three admission tests on
\* that snapshot under the configured limits.
C8_AsStated == inv_rx.can_open = can_open(inv_rx, inv_cfg)

----------------------------------------------------------------------------
(* Properties of the User Fill Listener (ListenerSpec) *)

\* the step reads a replayed message
ReplayStep == replay.pos <= replay.upto /\ replay' # replay

\* C5 as stated: a replayed message never makes a FillEvent.
C5_AsStated == [][ReplayStep => fills_out' = fills_out]_vars

\* C5, amended: a replayed message makes no FillEvent when it is read within
\* the TTL of the first delivery of the sequence and the listener has sent no
\* more FillEvents than the cache has room for keys.
C5_Replay ==
    [][(/\ ReplayStep
        /\ dedup_now - msgs_in[1].at <= DedupTtl
        /\ Len(fills_out) <= DedupMaxEntries) => fills_out' = fills_out]_vars

\* a replay of two or more messages has ended, in time and within capacity
C5_Witness ==
    /\ replay.n = 1
    /\ replay.upto >= 2
    /\ replay.pos > replay.upto
    /\ fills_out # <<>>
    /\ dedup_now - msgs_in[1].at <= DedupTtl
    /\ Len(fills_out) <= DedupMaxEntries

\* two logged FillEvents are of the same trade, order and kind of status
SameFill(a, b) ==
    /\ a.key.tid # 0
    /\ a.key.tid = b.key.tid
    /\ a.fill.order_id = b.fill.order_id
    /\ (a.fill.status \in SuccessStatuses) = (b.fill.status \in SuccessStatuses)

----------------------------------------------------------------------------
(* Properties of hedging on thin books (HedgeSpec) *)

\* the side a Hedge tick bids on under the snapshot inv
DeficitSide(inv) == IF inv.net_diff > 0 THEN "No" ELSE "Yes"

AskOf(ub, side) == IF side = "Yes" THEN ub.yes_ask ELSE ub.no_ask

\* the step is a book tick that takes the Hedge branch
HedgeTickStep ==
    /\ stats'.ticks = stats.ticks + 1
    /\ TickBranch(ofi_rx, usable_book(book', last_valid_book'), inv_rx) = "hedge"

\* C11: on a Hedge tick where the deficit side's best ask in the usable book
\* (the current value if positive, else the last valid one) is 0, no
\* PlacePostOnlyBid is sent.
C11_EmptyAskRefusal ==
    [][(/\ HedgeTickStep
        /\ AskOf(usable_book(book', last_valid_book'), DeficitSide(inv_rx)) = 0)
       => NoPlaceSent]_vars

\* a Hedge tick found no ask on the deficit side, after the one fill that
\* made the imbalance, and sent nothing
C11_Witness ==
    /\ last_tick.branch = "hedge"
    /\ last_tick.out = <<>>
    /\ Len(msgs_in) = 1
    /\ fill_q = <<>>
    /\ inv_fill_q = <<>>
    /\ inv_rx.net_diff # 0
    /\ AskOf(usable_book(book, last_valid_book), DeficitSide(inv_rx)) = 0

----------------------------------------------------------------------------
(* Properties of the OFI Engine (OfiSpec) *)

\* C15: once more than window_duration plus one heartbeat interval has passed
\* since the OFI Engine took its last trade tick, the snapshot on the watch
\* channel has is_toxic = false and ofi_score = 0 on both sides.
C15_ToxicityDecays ==
    now - ofi_seen.at > ofi_cfg.window_duration + ofi_cfg.heartbeat_ms
    => \A s \in Sides : ~ofi_rx[s].is_toxic /\ ofi_rx[s].ofi_score = 0

\* the last trade tick left a side toxic, the window is a multiple of the
\* heartbeat, and the toxicity has decayed with no further trade tick
C15_Witness ==
    /\ ofi_seen.toxic
    /\ ofi_cfg.window_duration = 4
    /\ now - ofi_seen.at > ofi_cfg.window_duration + ofi_cfg.heartbeat_ms
    /\ \A s \in Sides : ~ofi_rx[s].is_toxic /\ ofi_rx[s].ofi_score = 0

----------------------------------------------------------------------------
(* Properties of the supervisor (MainSpec) *)

\* main's own steps
MainStep ==
    \/ MainAuth \/ MainCreds
    \/ (sup.round < MaxRounds /\ \E ok \in BOOLEAN : MainResolve(ok))
    \/ (\E d \in {"finite", "overflow", "never"} : MainRunMarket(d))
    \/ MainExpired \/ MainCancelAll \/ MainGraceOver \/ MainAbort \/ MainRoundEnd

\* the runtime schedules every task that can run, and main goes on whenever
\* its next step is possible
MainFairSpec == MainSpec /\ WF_vars(MainNext) /\ WF_vars(MainStep)

\* a step in which a session task is aborted
AbortStep == Len(sup'.handles) < Len(sup.handles)

\* C17: when the market loop has ended, main sends CancelAll{MarketExpired}
\* on the execution-command channel before it aborts any session task, and a
\* task is aborted only when the grace interval after that CancelAll has
\* passed; until then every spawned task is there.
C17_CancelAllThenGrace ==
    [][ /\ (sup.pc = "ended" /\ sup'.pc # "ended") =>
              /\ exec_q' = Append(exec_q, CancelAllCmd("MarketExpired"))
              /\ sup'.cancelled = sup.round
              /\ sup'.cancel_at = now
              /\ sup'.handles = sup.handles
        /\ (sup'.cancelled # sup.cancelled \/ sup'.cancel_at # sup.cancel_at) =>
              sup.pc = "ended"
        /\ AbortStep =>
              /\ sup.cancelled = sup.round
              /\ now - sup.cancel_at >= GraceTicks
        /\ sup.pc \in {"running", "ended", "grace"} =>
              sup.handles = SpawnedTasks(sup.api_creds)
      ]_vars

\* a live round whose six tasks have all been aborted after its CancelAll
C17_Witness ==
    /\ ~cfg.dry_run
    /\ sup.pc = "abort"
    /\ sup.handles = <<>>
    /\ sup.cancelled = sup.round
    /\ now - sup.cancel_at >= GraceTicks

\* the environment denies a live session: no usable private key, the exchange
\* rejects the authentication, or there are no API credentials to be had
Denied(env) ==
    \/ env.private_key # "good"
    \/ ~env.auth_ok
    \/ (~env.env_creds /\ ~env.derive_ok)

\* main has not reached the round loop
BeforeRounds == sup.pc \in {"init", "creds", "fatal"}

\* C18: in live mode no session round runs without an authenticated client,
\* a signer and API credentials for the fill stream; when authentication
\* fails, credentials cannot be obtained or there is no private key, main
\* never reaches the round loop, and before the round loop no task is
\* spawned, no command is queued and no order is placed.
C18_LiveNeedsCredentials ==
    ~cfg.dry_run =>
        /\ ~BeforeRounds => (sup.client /\ sup.signer /\ sup.api_creds)
        /\ Denied(sup.env) => BeforeRounds
        /\ BeforeRounds =>
              /\ sup.handles = <<>>
              /\ sup.round = 0
              /\ exec_q = <<>>
              /\ next_oid = 0
              /\ \A s \in Sides : open_orders[s] = EmptyOrders /\ placed[s].n = 0

\* a live process that authenticated but got no API credentials, and ended
C18_Witness ==
    /\ ~cfg.dry_run
    /\ sup.pc = "fatal"
    /\ sup.client /\ sup.signer
    /\ ~sup.api_creds

\* C19: in fixed mode the session of the one market eventually ends and the
\* process exits with success after that round.
C19_AsStated ==
    (~sup.env.prefix_mode /\ sup.pc = "spawned") ~> (sup.pc = "exited")

\* C20: in dry-run mode no FillEvent is ever produced, the inventory is the
\* initial zero state (net_diff = 0, can_open = true) in every reachable
\* state, and a Coordinator tick that passes the kill switch and the book
\* check takes the Balanced branch, never the Hedge branch.
C20_DryRunStaysBalanced ==
    cfg.dry_run =>
        /\ fills_out = <<>>
        /\ fill_q = <<>> /\ inv_fill_q = <<>> /\ exec_fill_q = <<>>
        /\ inv_state = DefaultInventoryState
        /\ inv_rx = DefaultInventoryState
        /\ inv_rx.net_diff = 0 /\ inv_rx.can_open
        /\ last_tick.branch \in {"none", "toxic", "empty", "balanced"}

\* a dry-run session whose Coordinator has handled a book tick and set both slots
C20_Witness ==
    /\ cfg.dry_run
    /\ Alive("coordinator")
    /\ stats.ticks > 0
    /\ last_tick.branch = "balanced"
    /\ \A s \in Sides : slots[s].active

\* a live session has fills and takes the Hedge branch
C20_LiveHedges ==
    /\ ~cfg.dry_run
    /\ fills_out # <<>>
    /\ last_tick.branch = "hedge"

----------------------------------------------------------------------------
(* Dry-run bookkeeping (Spec) *)

\* C21: in dry-run mode each placement the Coordinator decides adds an entry
\* to the Executor's open-order map and each cancel it decides removes that
\* side's entries: once the Coordinator's tick is over and the Executor has
\* no command left to handle, a side has an entry in the map exactly when
\* the Coordinator holds a bid on it; no order reaches the venue and no
\* FillEvent is produced.
C21_AsStated ==
    (cfg.dry_run /\ coord_pc = "idle" /\ exec_q = <<>>) =>
        /\ \A s \in Sides : slots[s].active <=> DOMAIN open_orders[s] # {}
        /\ venue = EmptyOrders
        /\ fills_out = <<>>

----------------------------------------------------------------------------
(* The update rule of the Inventory Manager (InvSpec) *)

\* the rationals a and b are equal
RatEq(a, b) == a[1] * b[2] = b[1] * a[2]

\* C22: for the fill the Inventory Manager applies, with s = +1 for Matched
\* or Confirmed and s = -1 for Failed: the side's quantity becomes
\* max(0, qty_old + s*size); for s = +1 its average cost becomes
\* (qty_old*avg_old + size*price)/qty_new; a Failed fill that leaves the
\* quantity above zero leaves the average cost as it was; the other side's
\* quantity and average cost are unchanged; net_diff = yes_qty - no_qty; and
\* portfolio_cost = yes_avg_cost + no_avg_cost when both quantities are
\* non-zero, else 0.
C22_UpdateRule ==
    [][InvStep =>
        LET fill == Head(inv_fill_q)
            side == fill.side
            other == OtherSide(side)
            sgn == IF fill.status \in {"Matched", "Confirmed"} THEN 1 ELSE -1
            qty_old == Held(inv_state, side)
            avg_old == AvgOf(inv_state, side)
            qty_new == Held(inv_state', side)
            avg_new == AvgOf(inv_state', side)
        IN /\ qty_new = (IF qty_old + sgn * fill.filled_size > 0
                         THEN qty_old + sgn * fill.filled_size ELSE 0)
           /\ sgn = 1 =>
                 \* avg_new * qty_new = qty_old * avg_old + size * price
                 avg_new[1] * qty_new * avg_old[2]
                    = (qty_old * avg_old[1] + fill.filled_size * fill.price * avg_old[2])
                      * avg_new[2]
           /\ (sgn = -1 /\ qty_new > 0) => avg_new = avg_old
           /\ Held(inv_state', other) = Held(inv_state, other)
           /\ AvgOf(inv_state', other) = AvgOf(inv_state, other)
           /\ inv_state'.net_diff = inv_state'.yes_qty - inv_state'.no_qty
           /\ IF inv_state'.yes_qty # 0 /\ inv_state'.no_qty # 0
              THEN RatEq(inv_state'.portfolio_cost,
                         <<inv_state'.yes_avg_cost[1] * inv_state'.no_avg_cost[2]
                             + inv_state'.no_avg_cost[1] * inv_state'.yes_avg_cost[2],
                           inv_state'.yes_avg_cost[2] * inv_state'.no_avg_cost[2]>>)
              ELSE inv_state'.portfolio_cost = Zero
    ]_vars

\* three fills of YES were applied: 3 at 0.400, 1 at 0.600, then a Failed one
\* of 1; the side holds 3 at the average 0.450
C22_Witness ==
    /\ Len(msgs_in) = 3
    /\ msgs_in[3].msg.status = "FAILED"
    /\ fill_q = <<>>
    /\ inv_fill_q = <<>>
    /\ inv_state.yes_qty = 3
    /\ inv_state.yes_avg_cost = <<450, 1>>
    /\ inv_state.no_qty = 0

----------------------------------------------------------------------------
(* The published OFI snapshot (OfiSpec) *)

\* the step is an event of the OFI Engine: a trade tick or a heartbeat
OfiEventStep ==
    \/ ofi_md_q # <<>> /\ ofi_md_q' = Tail(ofi_md_q)
    \/ ofi_ticker' # ofi_ticker

\* the ticks a side's window holds when the event is handled: those it held,
\* and the trade tick of the event when it is on that side
TicksAtEvent(side) ==
    IF ofi_md_q # <<>> /\ ofi_md_q' = Tail(ofi_md_q)
       /\ Head(ofi_md_q).market_side = side
    THEN Append(ofi_win[side],
                [taker_side |-> Head(ofi_md_q).taker_side,
                 size |-> Head(ofi_md_q).size, ts |-> Head(ofi_md_q).ts])
    ELSE ofi_win[side]

\* the ticks among ticks that are not older than t - window
NotOlder(ticks, t, window) ==
    {i \in 1..Len(ticks) : ticks[i].ts >= t - window}

\* the sizes of the ticks of one taker side at the indices idx, summed
RECURSIVE SizeSum(_, _, _)
SizeSum(ticks, idx, taker_side) ==
    IF idx = {} THEN 0
    ELSE LET i == CHOOSE j \in idx : TRUE
         IN (IF ticks[i].taker_side = taker_side THEN ticks[i].size ELSE 0)
            + SizeSum(ticks, idx \ {i}, taker_side)

\* C23: after every event of the OFI Engine the snapshot on the watch channel
\* has, for each side, buy_volume and sell_volume equal to the sums of the
\* sizes of exactly that side's ticks whose ts is not older than now -
\* window_duration, the window holds no older tick, ofi_score = buy_volume -
\* sell_volume, and is_toxic holds iff |ofi_score| > toxicity_threshold; a
\* tick on one side adds nothing to the other side.
C23_SnapshotIsWindow ==
    [][OfiEventStep =>
        \A s \in Sides :
            LET ticks == TicksAtEvent(s)
                idx == NotOlder(ticks, now, ofi_cfg.window_duration)
                buy == SizeSum(ticks, idx, "Buy")
                sell == SizeSum(ticks, idx, "Sell")
            IN /\ ofi_rx'[s].buy_volume = buy
               /\ ofi_rx'[s].sell_volume = sell
               /\ ofi_rx'[s].ofi_score = buy - sell
               /\ ofi_rx'[s].is_toxic <=>
                     (IF buy - sell < 0 THEN sell - buy ELSE buy - sell)
                        > ofi_cfg.toxicity_threshold
               /\ Len(ofi_win'[s]) = Cardinality(idx)
               /\ \A i \in 1..Len(ofi_win'[s]) :
                     ofi_win'[s][i].ts >= now - ofi_cfg.window_duration
    ]_vars

\* two trade ticks were taken; the heartbeat due now has fired; the NO window
\* holds one tick whose age is exactly the window; its score equals the
\* threshold and is not toxic; the YES window is empty
C23_Witness ==
    /\ ofi_seen.n = 2
    /\ ofi_md_q = <<>>
    /\ ofi_ticker > now
    /\ ofi_win["Yes"] = <<>>
    /\ Len(ofi_win["No"]) = 1
    /\ now - ofi_win["No"][1].ts = ofi_cfg.window_duration
    /\ Abs(ofi_rx["No"].ofi_score) = ofi_cfg.toxicity_threshold
    /\ ~ofi_rx["No"].is_toxic
    /\ ofi_rx["Yes"].buy_volume = 0 /\ ofi_rx["Yes"].sell_volume = 0

----------------------------------------------------------------------------
(* The excess side on a Hedge tick (HedgeSpec) *)

\* the side a Hedge tick holds too much of under the snapshot inv
ExcessSide(inv) == OtherSide(DeficitSide(inv))

\* the CancelSide for side among the commands out
CancelsFor(out, side) ==
    {i \in 1..Len(out) : out[i].type = "CancelSide" /\ out[i].side = side}

\* C24: on every Hedge tick the excess side's slot is inactive after the
\* tick, one CancelSide with reason InventoryLimit is sent for it if the slot
\* was active and none if it was not, and no PlacePostOnlyBid is sent for the
\* excess side.
C24_ExcessSideCancelled ==
    [][HedgeTickStep =>
        LET excess == ExcessSide(inv_rx)
        IN /\ ~slots'[excess].active
           /\ slots'[excess].price = 0
           /\ PlacesFor(NewCmds, excess) = {}
           /\ Cardinality(CancelsFor(NewCmds, excess))
                 = (IF slots[excess].active THEN 1 ELSE 0)
           /\ \A i \in CancelsFor(NewCmds, excess) :
                 NewCmds[i].reason = "InventoryLimit"
    ]_vars

\* a Hedge tick has cancelled the bid that a Balanced tick had placed on the
\* side that was then filled
C24_Witness ==
    /\ last_tick.branch = "hedge"
    /\ stats.ticks = 2
    /\ \E s \in Sides :
          /\ s = ExcessSide(inv_rx)
          /\ CancelsFor(last_tick.out, s) # {}
          /\ ~slots[s].active

----------------------------------------------------------------------------
(* The deficit side's bid after a Hedge tick (QuoteSpec) *)

\* C25: after every Hedge tick, if the deficit side's slot is active, its
\* price is at most pair_target - avg_cost(excess side) and at most
\* best_ask(deficit side) - tick_size, whether the bid was placed on this
\* tick or kept from an earlier one.
C25_AsStated ==
    [][HedgeTickStep =>
        LET deficit == DeficitSide(inv_rx)
            avg == AvgOf(inv_rx, ExcessSide(inv_rx))
            ub == usable_book(book', last_valid_book')
        IN slots'[deficit].active =>
              /\ slots'[deficit].price * avg[2] <= cfg.pair_target * avg[2] - avg[1]
              /\ slots'[deficit].price <= AskOf(ub, deficit) - cfg.tick_size
    ]_vars

----------------------------------------------------------------------------
(* The inventory gate (GateSpec) *)

\* the step is a book tick
TickStep == stats'.ticks = stats.ticks + 1

\* the step is state_balanced reading a snapshot with can_open = false
GatedBalancedStep ==
    /\ coord_pc = "balanced"
    /\ coord_pc' = "idle"
    /\ ~inv_rx.can_open

\* the step cancels side once for InventoryLimit if its slot was active, sends
\* nothing else for it, and leaves the slot inactive
ShutFor(side) ==
    /\ ~slots'[side].active
    /\ PlacesFor(NewCmds, side) = {}
    /\ Cardinality(CancelsFor(NewCmds, side)) = (IF slots[side].active THEN 1 ELSE 0)
    /\ \A i \in CancelsFor(NewCmds, side) : NewCmds[i].reason = "InventoryLimit"

\* the step keeps side's bid alive: an active slot stays active, and a
\* CancelSide for it is a Reprice that the new PlacePostOnlyBid follows
KeptAlive(side) ==
    /\ slots[side].active => slots'[side].active
    /\ \A i \in CancelsFor(NewCmds, side) :
          /\ NewCmds[i].reason = "Reprice"
          /\ i + 1 \in PlacesFor(NewCmds, side)

\* C26: on a tick whose inventory snapshot (the one the branch taken reads)
\* has can_open = false, no PlacePostOnlyBid with reason Provide is sent; if
\* net_diff is zero both active slots are cancelled; if net_diff is non-zero
\* only the risky side (YES if net_diff > 0, NO otherwise) is cancelled for
\* InventoryLimit and gets no new bid, while the hedge side's bid stays.
C26_InventoryGate ==
    [][(GatedBalancedStep \/ (TickStep /\ ~inv_rx.can_open)) =>
        /\ \A cmd \in Range(NewCmds) :
              ~(cmd.type = "PlacePostOnlyBid" /\ cmd.reason = "Provide")
        /\ (GatedBalancedStep /\ inv_rx.net_diff = 0) =>
              (ShutFor("Yes") /\ ShutFor("No"))
        /\ ((GatedBalancedStep \/ HedgeTickStep) /\ inv_rx.net_diff # 0) =>
              LET risky == IF inv_rx.net_diff > 0 THEN "Yes" ELSE "No"
              IN ShutFor(risky) /\ KeptAlive(OtherSide(risky))
    ]_vars

\* state_balanced found the gate closed and net_diff non-zero: it cancelled
\* the risky side's bid and left the hedge side's bid as it was
C26_Witness ==
    /\ last_tick.branch = "gated"
    /\ inv_rx.net_diff # 0
    /\ LET risky == IF inv_rx.net_diff > 0 THEN "Yes" ELSE "No"
       IN /\ CancelsFor(last_tick.out, risky) # {}
          /\ ~slots[risky].active
          /\ slots[OtherSide(risky)].active
          /\ Len(last_tick.out) = 1

\* state_balanced found the gate closed and net_diff zero, and cancelled both
C26_GateBoth ==
    /\ last_tick.branch = "gated"
    /\ inv_rx.net_diff = 0
    /\ Len(last_tick.out) = 2

----------------------------------------------------------------------------
(* place_or_reprice on an active slot (Spec) *)

\* the step is state_balanced with the gate open: it calls place_or_reprice
\* on both sides
QuoteBothStep == coord_pc = "balanced" /\ coord_pc' = "idle" /\ inv_rx.can_open

\* the price the step hands to place_or_reprice for side, 0 when it does not
\* call it for side
RepriceTarget(side) ==
    IF QuoteBothStep
    THEN safe_price(BalancedTargets(usable_book(book, last_valid_book), cfg)[side], cfg)
    ELSE IF HedgeTickStep /\ side = DeficitSide(inv_rx)
    THEN aggressive_price(HedgeCeiling(AvgOf(inv_rx, ExcessSide(inv_rx)), cfg),
                          AskOf(usable_book(book', last_valid_book'), side), cfg)
    ELSE 0

\* the reason the step gives place_or_reprice
RepriceReason == IF QuoteBothStep THEN "Provide" ELSE "Hedge"

\* the commands of the step that concern side
CmdsFor(out, side) == {i \in 1..Len(out) : out[i].side = side}

\* the step sends, for side, CancelSide{Reprice} and right after it the
\* PlacePostOnlyBid at price, and nothing else
CancelThenPlace(side, price) ==
    \E i \in 1..Len(NewCmds) :
        /\ CmdsFor(NewCmds, side) = {i, i + 1}
        /\ NewCmds[i] = CancelSideCmd(side, "Reprice")
        /\ NewCmds[i + 1] = PlaceCmd(side, price, cfg.bid_size, RepriceReason)

\* place_or_reprice is called for side on an active slot whose price drifts
\* from the target by more than reprice_threshold, after the debounce interval
RepriceDue(side) ==
    /\ RepriceTarget(side) > 0
    /\ slots[side].active
    /\ Abs(slots[side].price - RepriceTarget(side)) > cfg.reprice_threshold
    /\ now - slots[side].last_placed >= cfg.debounce_ms

\* place_or_reprice is called for side on an active slot within the threshold
RepriceNotNeeded(side) ==
    /\ RepriceTarget(side) > 0
    /\ slots[side].active
    /\ Abs(slots[side].price - RepriceTarget(side)) <= cfg.reprice_threshold

----------------------------------------------------------------------------
(* OrderFailed reports and newer placements (QuoteSpec) *)

\* the placements on side that ended in an OrderFailed
FailedPlaces(side) ==
    {i \in 1..Len(place_log[side]) : place_log[side][i] \in {"failed", "refused"}}

\* the OrderFailed of side the Coordinator has not read yet
PendingFailures(side) ==
    Cardinality({i \in 1..Len(result_q) : result_q[i].side = side})

\* the placement the oldest unread OrderFailed of side reports: reports are
\* read in the order the Executor sent them
ReportedPlace(side) ==
    CHOOSE i \in FailedPlaces(side) :
        Cardinality({j \in FailedPlaces(side) : j >= i}) = PendingFailures(side)

\* the next OrderFailed is about side and is stale: the Executor has since
\* accepted a newer bid on side, that bid is open and the slot stands for it
StaleFailure(side) ==
    /\ result_q # <<>>
    /\ Head(result_q).side = side
    /\ \E j \in 1..Len(place_log[side]) :
          /\ j > ReportedPlace(side)
          /\ place_log[side][j] = "placed"
          /\ \A k \in (j + 1)..Len(place_log[side]) : place_log[side][k] # "placed"
    /\ \E id \in DOMAIN open_orders[side] :
          id \in DOMAIN venue /\ venue[id].price = slots[side].price
    /\ slots[side].active

OrderFailedStep == coord_pc = "idle" /\ result_q # <<>> /\ result_q' = Tail(result_q)

\* C28 as stated: an OrderFailed{side} that concerns an earlier
\* PlacePostOnlyBid, read after the Executor accepted a newer bid on the side,
\* leaves the slot active.
C28_AsStated ==
    [][\A s \in Sides :
          (OrderFailedStep /\ StaleFailure(s)) => slots'[s].active]_vars

----------------------------------------------------------------------------
(* The kill switch and the orders the Executor holds (KillSpec) *)

\* C29 as stated, on the ticks that find the command channel empty (every
\* earlier command has been processed): on a tick with a toxic OFI snapshot a
\* CancelSide is sent for every side on which the Executor holds an open
\* order, whether or not the Coordinator's slot of the side is active.
C29_AsStated ==
    [][(ToxicTickStep /\ exec_q = <<>>) =>
          \A s \in Sides : DOMAIN open_orders[s] # {} =>
              CancelSideCmd(s, "ToxicFlow") \in Range(NewCmds)]_vars

----------------------------------------------------------------------------
(* Placements after the supervisor's CancelAll (MainSpec) *)

\* the Executor has processed the CancelAll{MarketExpired} of the round: main
\* has sent it and it is no longer on the command channel
CancelAllProcessed ==
    /\ sup.pc \in {"grace", "abort"}
    /\ sup.cancelled = sup.round
    /\ \A i \in 1..Len(exec_q) : exec_q[i].type # "CancelAll"

\* C30 as stated: once the Executor has processed the supervisor's
\* CancelAll{MarketExpired} it processes no PlacePostOnlyBid of that session.
C30_AsStated ==
    [][(ExecCmdStep /\ CancelAllProcessed) =>
          Head(exec_q).type # "PlacePostOnlyBid"]_vars

----------------------------------------------------------------------------
(* Active slots and the orders behind them (QuoteSpec) *)

\* nothing is in flight between the actors: no command, no order result, no
\* fill on its way to the Executor or the Inventory Manager, no tick half done
Quiescent ==
    /\ exec_q = <<>>
    /\ result_q = <<>>
    /\ fill_q = <<>>
    /\ exec_fill_q = <<>>
    /\ inv_fill_q = <<>>
    /\ coord_pc = "idle"

\* C31 as stated: whenever no execution command or order result is in flight,
\* an active Coordinator slot on a side implies that the Executor tracks an
\* open order on that side (also after the bid was fully filled).
C31_AsStated ==
    Quiescent => \A s \in Sides : slots[s].active => DOMAIN open_orders[s] # {}

----------------------------------------------------------------------------
(* A side after a failed remote cancel (BlockFairSpec) *)

\* the last CancelSide asked the venue to cancel the order of side, the venue
\* refused, and the Executor still tracks the order
CancelFailedOn(side) ==
    /\ last_cancel.asked # {}
    /\ last_cancel.ok = {}
    /\ last_cancel.asked \subseteq DOMAIN open_orders[side]

\* C32 as stated: after a remote cancel that fails once, with every later
\* remote call succeeding and book ticks continuing under non-toxic flow, the
\* still-tracked order is eventually cancelled (which a later accepted
\* PlacePostOnlyBid on the side needs, the Executor refusing placements on a
\* side that holds an order). Behaviours that use up the order ids of the
\* model are left out.
C32_AsStated ==
    \A s \in Sides :
        CancelFailedOn(s) ~> (DOMAIN open_orders[s] = {} \/ next_oid = MaxOrders)

----------------------------------------------------------------------------
(* The inventory snapshots of one tick (QuoteSpec) *)

\* the Coordinator runs state_balanced: tick() chose the Balanced branch from
\* a snapshot with net_diff = 0
BalancedStep == coord_pc = "balanced" /\ coord_pc' = "idle"

\* C33 as stated: all decisions of one tick are taken from one inventory
\* snapshot, so the snapshot from which state_balanced takes the can_open gate
\* and the risky side is the one the Balanced branch was chosen from, and has
\* net_diff = 0.
C33_AsStated == [][BalancedStep => inv_rx.net_diff = 0]_vars

----------------------------------------------------------------------------
(* The open-order map under fill notifications (FillSpec) *)

\* the Executor takes a fill notification from its channel
FillStep == exec_fill_q # <<>> /\ exec_fill_q' = Tail(exec_fill_q)

\* m2 is m1 without id
Without(m1, m2, id) ==
    /\ DOMAIN m2 = DOMAIN m1 \ {id}
    /\ \A i \in DOMAIN m2 : m2[i] = m1[i]

\* m2 is m1 with id set to v
WithSize(m1, m2, id, v) ==
    /\ DOMAIN m2 = DOMAIN m1
    /\ \A i \in DOMAIN m2 : m2[i] = IF i = id THEN v ELSE m1[i]

\* C34: for a tracked order each Matched or Confirmed fill decrements the
\* remaining size by filled_size, and the order is removed as soon as the
\* remainder is <= 0; a Failed fill removes the order whatever remains; a fill
\* whose order_id is not tracked on its side changes nothing; and every
\* remaining size stored in the map is strictly positive.
C34_FillLifecycle ==
    [][/\ FillStep =>
            LET f == Head(exec_fill_q)
                before == open_orders[f.side]
                after == open_orders'[f.side]
            IN /\ open_orders'[OtherSide(f.side)] = open_orders[OtherSide(f.side)]
               /\ f.order_id \notin DOMAIN before => after = before
               /\ (f.order_id \in DOMAIN before /\ f.status = "Failed") =>
                     Without(before, after, f.order_id)
               /\ (f.order_id \in DOMAIN before /\ f.status \in {"Matched", "Confirmed"}) =>
                     IF before[f.order_id] - f.filled_size <= 0
                     THEN Without(before, after, f.order_id)
                     ELSE WithSize(before, after, f.order_id,
                                   before[f.order_id] - f.filled_size)
       /\ \A s \in Sides : \A id \in DOMAIN open_orders'[s] : open_orders'[s][id] > 0
    ]_vars

\* a partial fill has left one share of a bid of two open
C34_Witness ==
    /\ ~cfg.dry_run
    /\ exec_fill_q = <<>>
    /\ fills_out # <<>>
    /\ \E s \in Sides : \E id \in DOMAIN open_orders[s] :
          /\ open_orders[s][id] = 1
          /\ \E i \in 1..Len(fills_out) :
                /\ fills_out[i].fill.order_id = id
                /\ fills_out[i].fill.side = s
                /\ fills_out[i].fill.filled_size = 1

----------------------------------------------------------------------------
(* Orders resting on the venue and the open-order map (RestSpec) *)

\* C35 as stated: every order the session placed that still rests on the
\* venue is present in the Executor's open-order map (also after a Failed
\* fill that reverts one partial fill of the order).
C35_AsStated == DOMAIN venue \subseteq AllOpenIds(open_orders)

----------------------------------------------------------------------------
(* The first quotes of a balanced session (BalancedSpec) *)

\* state_balanced runs on a flat inventory with the gate open, both slots
\* inactive and the debounce interval elapsed
FirstQuoteStep ==
    /\ BalancedStep
    /\ inv_rx.net_diff = 0
    /\ inv_rx.can_open
    /\ \A s \in Sides : ~slots[s].active /\ now - slots[s].last_placed >= cfg.debounce_ms

\* twice the mid of side in the book the tick uses
TwiceMid(side) ==
    LET ub == usable_book(book, last_valid_book)
    IN IF side = "Yes" THEN ub.yes_bid + ub.yes_ask ELSE ub.no_bid + ub.no_ask

\* the mid of side, reduced by half of the excess of the two mids over
\* pair_target if there is one, floored to a multiple of tick_size
FlooredMid(side) ==
    LET own == TwiceMid(side)
        other == TwiceMid(OtherSide(side))
    IN IF own + other <= 2 * cfg.pair_target
       THEN (own \div (2 * cfg.tick_size)) * cfg.tick_size
       ELSE ((own - other + 2 * cfg.pair_target) \div (4 * cfg.tick_size)) * cfg.tick_size

\* the floored mid, clamped to [0.001, 0.999]
ClampedMid(side) ==
    IF FlooredMid(side) < PriceMin THEN PriceMin
    ELSE IF FlooredMid(side) > PriceMax THEN PriceMax
    ELSE FlooredMid(side)

----------------------------------------------------------------------------
(* The size of a hedge bid (RestSpec) *)

\* C37 as stated: the size of a PlacePostOnlyBid with reason Hedge is at most
\* |net_diff| of the snapshot the tick computed it from, so that a full fill
\* of the hedge bid cannot flip the sign of net_diff.
C37_AsStated ==
    [][HedgeTickStep =>
          \A i \in 1..Len(NewCmds) :
              (NewCmds[i].type = "PlacePostOnlyBid" /\ NewCmds[i].reason = "Hedge") =>
                  NewCmds[i].size <= Abs(inv_rx.net_diff)]_vars

----------------------------------------------------------------------------
(* The snapshots the BookAssembler forwards (FeedSpec) *)

\* the latest non-zero value of component c among the updates of log, 0 if
\* there is none
LatestNonZero(log, c) ==
    LET seen == {i \in 1..Len(log) : log[i][c] # 0}
    IN IF seen = {} THEN 0
       ELSE log[CHOOSE i \in seen : \A j \in seen : j <= i][c]

\* the market feed has parsed one more book update
BookUpdateStep == Len(md_log'.in) = Len(md_log.in) + 1

\* C38: every book snapshot forwarded to the Coordinator has all four prices
\* strictly positive, each the latest non-zero value observed for its
\* component; none is forwarded before all four components were observed; and
\* a zero component of a partial update never overwrites a stored value.
C38_ForwardedBooks ==
    [][BookUpdateStep =>
          /\ \A c \in BookComponents : book_asm'[c] = LatestNonZero(md_log'.in, c)
          /\ \/ md_log'.out = md_log.out
             \/ /\ Len(md_log'.out) = Len(md_log.out) + 1
                /\ SubSeq(md_log'.out, 1, Len(md_log.out)) = md_log.out
                /\ \A c \in BookComponents :
                      LET sent == md_log'.out[Len(md_log'.out)][c]
                      IN sent > 0 /\ sent = LatestNonZero(md_log'.in, c)
          /\ (\E c \in BookComponents : LatestNonZero(md_log'.in, c) = 0) =>
                md_log'.out = <<>>
    ]_vars

\* a snapshot was forwarded on an update that left a price out, and it
\* carries a price that replaced an older one
C38_Witness ==
    /\ md_log.out # <<>>
    /\ Len(md_log.in) >= 3
    /\ \E c \in BookComponents :
          /\ md_log.in[Len(md_log.in)][c] = 0
          /\ md_log.out[Len(md_log.out)][c] > 0
    /\ \E c \in BookComponents : \E i \in 1..Len(md_log.in) :
          /\ md_log.in[i][c] # 0
          /\ md_log.in[i][c] # md_log.out[Len(md_log.out)][c]

----------------------------------------------------------------------------
(* Partial fills without a trade id (PartialSpec) *)

\* a trade message is read for the first time
FirstDelivery == msgs_in' # msgs_in

\* C39: when a trade message has no trade id, two genuine partial fills of
\* the same order at the same price each produce a FillEvent, while an exact
\* replay of one of them produces none.
C39_AsStated ==
    [][/\ (FirstDelivery /\ msgs_in'[Len(msgs_in')].msg.id = 0) =>
             Len(fills_out') = Len(fills_out) + 1
       /\ ReplayStep => fills_out' = fills_out
    ]_vars

----------------------------------------------------------------------------
(* The dedup cache: capacity, TTL and the entry that is evicted (CacheSpec) *)

\* the trade ids whose key is in the cache
CachedIds(cache) == {cache[i].key.tid : i \in 1..Len(cache)}

\* the trade ids of the cache whose entry is not older than the TTL
LiveIds == {dedup[i].key.tid : i \in {j \in 1..Len(dedup) : dedup[j].ts >= dedup_now - DedupTtl}}

\* the place, among the messages read, of the last one that used trade id id
LastUse(id) ==
    CHOOSE i \in 1..Len(msgs_in) :
        /\ msgs_in[i].msg.id = id
        /\ \A j \in (i + 1)..Len(msgs_in) : msgs_in[j].msg.id # id

\* after the remember call of the step the cache holds at most max_entries keys
CacheBounded == Len(dedup') <= DedupMaxEntries

\* a key that is not in the cache, or is there with an entry older than the
\* TTL, is treated as unseen: the message makes a FillEvent
ExpiredUnseen ==
    msgs_in'[Len(msgs_in')].msg.id \notin LiveIds => Len(fills_out') = Len(fills_out) + 1

\* an entry that was within the TTL and is gone after the step was the least
\* recently used of the entries within the TTL
EvictsLeastRecent ==
    \A id \in LiveIds \ CachedIds(dedup') :
        \A other \in LiveIds : LastUse(id) <= LastUse(other)

\* C40: after every remember call the dedup cache holds at most max_entries
\* keys; a key older than the TTL is treated as unseen; and when capacity is
\* exceeded the entry evicted is the least recently used one (a key that was
\* recently seen again as a duplicate is not the one evicted).
C40_AsStated ==
    [][FirstDelivery => CacheBounded /\ ExpiredUnseen /\ EvictsLeastRecent]_vars

\* the capacity and TTL parts of C40 alone
C40_TtlAndCapacity ==
    [][FirstDelivery => CacheBounded /\ ExpiredUnseen]_vars

====
